---- MODULE Spec2Model ----
(***************************************************************************)
(* AgriGuard backend: the AI provider abstraction (ai_provider.py) and the *)
(* conversational service with its in-memory session map (chat_service.py, *)
(* routes/chat.py).                                                        *)
(*                                                                         *)
(* Further down: the weather rules (weather_service.py), the outbreak      *)
(* score (ipm_service.py) and the parsers of AI text                       *)
(* (disease_detection.py, ipm_service.py).                                 *)
(*                                                                         *)
(* Six specifications:                                                     *)
(*   SpecProvider    one caller invoking SmartAIProvider, or a concrete    *)
(*                   backend, call after call;                             *)
(*   Spec            concurrent request handlers of the chat routes, each  *)
(*                   suspended at its awaited outbound HTTP calls;         *)
(*   SpecImageTurn   one chat turn with an image, for every text the       *)
(*                   vision backend can answer with;                       *)
(*   SpecServices    one call of analyze_leaf, analyze_field or            *)
(*                   generate_strategy;                                    *)
(*   SpecHeuristics  the scoring functions on the readings they take;      *)
(*   SpecRoutes      one request to a weather, ipm or analysis route.      *)
(***************************************************************************)
EXTENDS Integers, Sequences, FiniteSets, TLC

VARIABLES
    groq,                 \* SmartAIProvider.groq: None or a GroqProvider
    gemini,               \* SmartAIProvider.gemini: None or a GeminiProvider
    current_provider,     \* SmartAIProvider.current_provider, per instance
    call,                 \* SpecProvider: the caller's invocation in progress
    conversation_history, \* ConversationalService.conversation_history
    tasks,                \* Spec: the request handlers (coroutines)
    service,              \* SpecServices, SpecHeuristics: the call in progress
    returned              \* ... and what it returned

vars == <<groq, gemini, current_provider, call, conversation_history, tasks,
          service, returned>>

None == "None"

\* self.groq / self.gemini when the credential is absent (Python None).
NoProvider == [present |-> FALSE, api_key |-> ""]

-----------------------------------------------------------------------------
(* Values the environment supplies.                                        *)

\* The four concrete backends.
Backends == {"ollama", "groq", "gemini", "huggingface"}

\* The three operations of the AIProvider interface.
Ops == {"analyze_image", "generate_text", "chat"}

\* What an outbound HTTP request can end in: a 200 with the expected
\* envelope, a 200 whose JSON lacks it, 503, another non-success status,
\* a transport failure (aiohttp.ClientError), a timeout.
HttpOutcomes == {"200", "200_other_body", "503", "500", "client_error", "timeout"}

\* The holders of a SmartAIProvider instance (each constructs its own).
Instances == {"chat_service", "disease_service", "ipm_service"}

\* Image arguments: absent, the empty string, a base64 string, and a string
\* that is not valid base64 ("abc": 3 characters, incorrect padding).
ImgNone    == "None"
ImgEmpty   == ""
ImgValid   == "aGVsbG8="
ImgInvalid == "abc"

\* Message lists handed to chat(): entries may lack a field.
MsgUser == [role |-> "user", content |-> "hi"]
MessageLists ==
    { <<>>, <<MsgUser>>,
      <<MsgUser, [role |-> "assistant", content |-> "hello"], MsgUser>>,
      <<[content |-> "hi"]>>, <<MsgUser, [role |-> "user"]>> }

-----------------------------------------------------------------------------
(* The concrete backends: what each operation returns for each way its one *)
(* HTTP request can end.  A result is the text handed back to the caller:  *)
(* kind "reply" is the model's text, "default" a placeholder for a 200     *)
(* without the expected envelope, "error" an error string.                 *)

Text(kind, text) == [kind |-> kind, text |-> text]

IsFailure(outcome) == outcome \in {"503", "500", "client_error", "timeout"}

\* resp.status == 200
Status200(outcome) == outcome \in {"200", "200_other_body"}

Ollama_analyze_image_client_errors_only(outcome) ==
    CASE outcome = "200"            -> Text("reply", "response")
      [] outcome = "200_other_body" -> Text("default", "Unable to analyze image")
      [] outcome \in {"503", "500"} -> Text("error", "Error: {body}")
      [] outcome = "client_error"   ->
            Text("error", "Connection error: Make sure Ollama is running. Error: {e}")
      [] OTHER                      -> Text("raise", "TimeoutError")

Ollama_analyze_image(outcome) ==
    CASE outcome = "200"            -> Text("reply", "response")
      [] outcome = "200_other_body" -> Text("default", "Unable to analyze image")
      [] outcome \in {"503", "500"} -> Text("error", "Error: {body}")
      [] outcome = "client_error"   ->
            Text("error", "Connection error: Make sure Ollama is running. Error: {e}")
      [] OTHER                      -> Text("error", "Error analyzing image: {e}")

Ollama_generate_text(outcome) ==
    CASE outcome = "200"            -> Text("reply", "response")
      [] outcome = "200_other_body" -> Text("default", "")
      [] outcome \in {"503", "500"} -> Text("error", "Error: {body}")
      [] OTHER                      -> Text("error", "Error generating text: {e}")

Ollama_chat(outcome) ==
    CASE outcome = "200"            -> Text("reply", "response")
      [] outcome = "200_other_body" -> Text("default", "")
      [] outcome \in {"503", "500"} -> Text("error", "Error: {body}")
      [] OTHER                      -> Text("error", "Error in chat: {e}")

Groq_analyze_image(outcome) ==
    CASE outcome = "200"            -> Text("reply", "response")
      [] outcome \in {"503", "500"} -> Text("error", "Groq API Error: {body}")
      [] OTHER                      -> Text("error", "Error: {e}")

Groq_chat(outcome) ==
    CASE outcome = "200"            -> Text("reply", "response")
      [] outcome \in {"503", "500"} -> Text("error", "Groq API Error: {body}")
      [] OTHER                      -> Text("error", "Error: {e}")

\* generate_text builds a message list and returns self.chat(messages).
Groq_generate_text(outcome) == Groq_chat(outcome)

Gemini_analyze_image(outcome) ==
    CASE outcome = "200"            -> Text("reply", "response")
      [] outcome \in {"503", "500"} -> Text("error", "Gemini Error: {body}")
      [] OTHER                      -> Text("error", "Error: {e}")

Gemini_generate_text(outcome) ==
    CASE outcome = "200"            -> Text("reply", "response")
      [] outcome \in {"503", "500"} -> Text("error", "Error: {body}")
      [] OTHER                      -> Text("error", "Error: {e}")

Gemini_chat(outcome) ==
    CASE outcome = "200"            -> Text("reply", "response")
      [] outcome \in {"503", "500"} -> Text("error", "Error: {body}")
      [] OTHER                      -> Text("error", "Error: {e}")

HuggingFace_analyze_image(outcome) ==
    CASE outcome = "200"            -> Text("reply", "response")
      [] outcome = "200_other_body" -> Text("default", "str(data)")
      [] outcome = "503"            ->
            Text("error", "Model is loading, please try again in a moment")
      [] outcome = "500"            -> Text("error", "HuggingFace Error: {body}")
      [] OTHER                      -> Text("error", "Error: {e}")

HuggingFace_generate_text(outcome) ==
    CASE outcome = "200"            -> Text("reply", "response")
      [] outcome = "200_other_body" -> Text("default", "str(data)")
      [] outcome \in {"503", "500"} -> Text("error", "Error: {body}")
      [] OTHER                      -> Text("error", "Error: {e}")

\* chat flattens the messages into one prompt and returns
\* self.generate_text(full_prompt).
HuggingFace_chat(outcome) == HuggingFace_generate_text(outcome)

\* provider.<op>(...) once its request has ended in `outcome`.
BackendResult(provider, op, outcome) ==
    CASE provider = "ollama" /\ op = "analyze_image" -> Ollama_analyze_image(outcome)
      [] provider = "ollama" /\ op = "generate_text" -> Ollama_generate_text(outcome)
      [] provider = "ollama" /\ op = "chat"          -> Ollama_chat(outcome)
      [] provider = "groq" /\ op = "analyze_image"   -> Groq_analyze_image(outcome)
      [] provider = "groq" /\ op = "generate_text"   -> Groq_generate_text(outcome)
      [] provider = "groq" /\ op = "chat"            -> Groq_chat(outcome)
      [] provider = "gemini" /\ op = "analyze_image" -> Gemini_analyze_image(outcome)
      [] provider = "gemini" /\ op = "generate_text" -> Gemini_generate_text(outcome)
      [] provider = "gemini" /\ op = "chat"          -> Gemini_chat(outcome)
      [] provider = "huggingface" /\ op = "analyze_image" ->
            HuggingFace_analyze_image(outcome)
      [] provider = "huggingface" /\ op = "generate_text" ->
            HuggingFace_generate_text(outcome)
      [] OTHER -> HuggingFace_chat(outcome)

\* The statements an operation runs before its request, outside any try:
\* HuggingFace.analyze_image decodes the image (base64.b64decode raises
\* binascii.Error on incorrect padding, TypeError on None; the empty string
\* decodes to no bytes); Gemini.chat indexes msg["role"] and msg["content"]
\* of every message.
PreRequestRaises(provider, op, image, messages) ==
    CASE provider = "huggingface" /\ op = "analyze_image" ->
            image \in {ImgInvalid, ImgNone}
      [] provider = "gemini" /\ op = "chat" ->
            \E i \in 1..Len(messages) :
                ~({"role", "content"} \subseteq DOMAIN messages[i])
      [] OTHER -> FALSE

\* The endpoint the operation posts to.
Endpoint(provider, op) ==
    CASE provider = "ollama" ->
            IF op = "chat" THEN "/api/chat" ELSE "/api/generate"
      [] provider = "groq"   -> "/chat/completions"
      [] provider = "gemini" -> ":generateContent"
      [] OTHER ->
            IF op = "analyze_image" THEN "/models/llava-hf/llava-1.5-7b-hf"
            ELSE "/models/mistralai/Mistral-7B-Instruct-v0.2"

-----------------------------------------------------------------------------
(* SmartAIProvider: selection of a backend, then the backend's operation.  *)

\* `self.groq and self.groq.api_key`
Configured(p) == p.present /\ p.api_key # ""

check_connection_unguarded(outcome) ==
    [raised |-> (outcome \in {"client_error", "timeout"}), value |-> Status200(outcome)]

\* OllamaProvider.check_connection for each way the GET /api/tags can end:
\* True on status 200, False on any other status; the bare except turns
\* every error into False.
check_connection(outcome) ==
    [raised |-> FALSE, value |-> Status200(outcome)]

\* Whether _get_available_provider reaches `await check_connection()`.
NeedsProbe(need_vision, g, gm) ==
    ~need_vision /\ ~Configured(g) /\ ~Configured(gm)

get_available_provider_gemini_first(need_vision, g, gm, reachable) ==
    IF need_vision THEN "huggingface"
    ELSE IF Configured(gm) THEN "gemini"
    ELSE IF Configured(g) THEN "groq"
    ELSE IF reachable THEN "ollama"
    ELSE "huggingface"

get_available_provider_ollama_last(need_vision, g, gm, reachable) ==
    IF need_vision THEN "huggingface"
    ELSE IF Configured(g) THEN "groq"
    ELSE IF Configured(gm) THEN "gemini"
    ELSE "ollama"

\* SmartAIProvider._get_available_provider; `reachable` is the probe's
\* result and is read only where the code probes.
get_available_provider(need_vision, g, gm, reachable) ==
    IF need_vision THEN "huggingface"
    ELSE IF Configured(g) THEN "groq"
    ELSE IF Configured(gm) THEN "gemini"
    ELSE IF reachable THEN "ollama"
    ELSE "huggingface"

NeedVision_chat_too(op) == (op \in {"analyze_image", "chat"})

\* need_vision as passed by analyze_image, generate_text and chat.
NeedVision(op) == (op = "analyze_image")

\* An invocation of one AIProvider operation.  via: "smart" or the concrete
\* backend called directly; reqs: the outbound requests it has issued;
\* probe, response: how its reachability probe and its backend request
\* ended; result: the text returned.  pc "raised": an exception left it.
IdleCall ==
    [pc |-> "idle", via |-> None, inst |-> None, op |-> None, image |-> ImgNone,
     messages |-> <<>>, provider |-> None, probe |-> None, reqs |-> <<>>,
     response |-> None, result |-> Text(None, None)]

NewCall(via, inst, op, image, messages) ==
    [IdleCall EXCEPT !.via = via, !.inst = inst, !.op = op, !.image = image,
                     !.messages = messages]

ProbeRequest == [to |-> "ollama", endpoint |-> "/api/tags", messages |-> <<>>]

\* provider.<op>(...) from its first statement to its awaited request.
Invoke(c, provider, messages) ==
    IF PreRequestRaises(provider, c.op, c.image, messages)
    THEN [c EXCEPT !.pc = "raised", !.provider = provider]
    ELSE [c EXCEPT !.pc = "request", !.provider = provider,
                   !.reqs = Append(@, [to |-> provider,
                                       endpoint |-> Endpoint(provider, c.op),
                                       messages |-> messages])]

SmartBegin_sticky(c, messages) ==
    IF current_provider[c.inst] # None
    THEN Invoke(c, current_provider[c.inst], messages)
    ELSE IF NeedsProbe(NeedVision(c.op), groq, gemini)
    THEN [c EXCEPT !.pc = "probe", !.reqs = Append(@, ProbeRequest)]
    ELSE Invoke(c, get_available_provider(NeedVision(c.op), groq, gemini, FALSE),
                messages)

\* SmartAIProvider.<op> from its first statement to its first await: the
\* probe when selection needs one, else the selected backend's request.
SmartBegin(c, messages) ==
    IF NeedsProbe(NeedVision(c.op), groq, gemini)
    THEN [c EXCEPT !.pc = "probe", !.reqs = Append(@, ProbeRequest)]
    ELSE Invoke(c, get_available_provider(NeedVision(c.op), groq, gemini, FALSE),
                messages)

\* ... resumed when the probe has ended in `outcome`.
SmartAfterProbe(c, outcome, messages) ==
    LET r == check_connection(outcome) IN
    IF r.raised
    THEN [c EXCEPT !.pc = "raised", !.probe = outcome]
    ELSE Invoke([c EXCEPT !.probe = outcome],
                get_available_provider(NeedVision(c.op), groq, gemini, r.value),
                messages)

AfterResponse_retry_once(c, outcome) ==
    IF IsFailure(outcome) /\ Len(c.reqs) < 3
    THEN [c EXCEPT !.reqs = Append(@, c.reqs[Len(c.reqs)])]
    ELSE [c EXCEPT !.pc = "returned", !.response = outcome,
                   !.result = BackendResult(c.provider, c.op, outcome)]

\* ... resumed when the backend's request has ended in `outcome`.
AfterResponse(c, outcome) ==
    LET r == BackendResult(c.provider, c.op, outcome) IN
    IF r.kind = "raise"
    THEN [c EXCEPT !.pc = "raised", !.response = outcome]
    ELSE [c EXCEPT !.pc = "returned", !.response = outcome, !.result = r]

\* self.current_provider after the invocation's step: assigned when
\* _get_available_provider returns.
SetCurrent(cur, c, d) ==
    IF c.via = "smart" /\ d.provider # c.provider
    THEN [cur EXCEPT ![c.inst] = d.provider]
    ELSE cur

-----------------------------------------------------------------------------
(* SpecProvider: one caller, one invocation at a time.                     *)

\* __init__: a backend object is built only when its credential is set, and
\* then holds that credential.
ProviderConfigs ==
    { NoProvider, [present |-> TRUE, api_key |-> "key"] }

ImageArgs(op) ==
    IF op = "analyze_image" THEN {ImgValid, ImgInvalid, ImgEmpty} ELSE {ImgNone}

MessageArgs(op) == IF op = "chat" THEN MessageLists ELSE {<<>>}

\* conversation_history = {} : no session yet.
EmptyHistory == [s \in {} |-> <<>>]

\* No request handler exists under SpecProvider.
NoTasks == [t \in {} |-> None]

\* Optional[float] coordinates of a request: absent, 0, a non-zero value.
NoFloat == [some |-> FALSE, val |-> 0]
Float(v) == [some |-> TRUE, val |-> v]

\* Python truthiness of an Optional[float] / Optional[str].
TruthyFloat(x) == x.some /\ x.val # 0
TruthyImage(image) == image \notin {ImgNone, ImgEmpty}

\* A Python dict is a function from its keys; {} has none.
EmptyDict == [k \in {} |-> None]

\* dict.get(key, default)
Get(d, key, default) == IF key \in DOMAIN d THEN d[key] ELSE default

\* d[key] = value
DictSet(d, key, value) ==
    [k \in DOMAIN d \cup {key} |-> IF k = key THEN value ELSE d[k]]

\* What a call handed back: status None while it has not returned,
\* "returned" with its value, or "raised".
NotReturned == [status |-> None, value |-> EmptyDict]
Returned(value) == [status |-> "returned", value |-> value]
Raised == [status |-> "raised", value |-> EmptyDict]

\* A call of a service method (analyze_leaf, analyze_field,
\* generate_strategy) or of a scoring function.  pc: "idle", the await it is
\* suspended at ("current", "forecast", "ai"), or "done".  args: the
\* argument of a scoring function.  The other fields are the locals of
\* generate_strategy, the text `response` the AI provider returned and
\* what the parser made of it.
IdleService ==
    [pc |-> "idle", site |-> None, args |-> <<>>,
     latitude |-> NoFloat, longitude |-> NoFloat, crop |-> None,
     current |-> EmptyDict, forecast |-> EmptyDict, weather_risks |-> EmptyDict,
     response |-> <<>>, parsed |-> NotReturned,
     route |-> None, http |-> [status_code |-> 0, detail |-> None]]

InitProvider ==
    /\ groq \in ProviderConfigs
    /\ gemini \in ProviderConfigs
    /\ current_provider = [i \in Instances |-> None]
    /\ call = IdleCall
    /\ conversation_history = EmptyHistory
    /\ tasks = NoTasks
    /\ service = IdleService
    /\ returned = NotReturned

\* A caller invokes SmartAIProvider.<op>.
PCallSmart(inst, op, image, messages) ==
    /\ call.pc = "idle"
    /\ LET c == NewCall("smart", inst, op, image, messages)
           d == SmartBegin(c, messages) IN
       /\ call' = d
       /\ current_provider' = SetCurrent(current_provider, c, d)
    /\ UNCHANGED <<service, returned, groq, gemini, conversation_history, tasks>>

\* A caller invokes <op> of a concrete backend (get_ai_provider's result).
PCallBackend(provider, op, image, messages) ==
    /\ call.pc = "idle"
    /\ call' = Invoke(NewCall(provider, None, op, image, messages), provider, messages)
    /\ UNCHANGED <<service, returned, groq, gemini, current_provider, conversation_history, tasks>>

\* The reachability probe ends.
PProbeReturn(outcome) ==
    /\ call.pc = "probe"
    /\ LET d == SmartAfterProbe(call, outcome, call.messages) IN
       /\ call' = d
       /\ current_provider' = SetCurrent(current_provider, call, d)
    /\ UNCHANGED <<service, returned, groq, gemini, conversation_history, tasks>>

\* The backend's request ends.
PResponse(outcome) ==
    /\ call.pc = "request"
    /\ call' = AfterResponse(call, outcome)
    /\ UNCHANGED <<service, returned, groq, gemini, current_provider, conversation_history, tasks>>

\* The caller has its text (or the exception); it may call again.
PDone ==
    /\ call.pc \in {"returned", "raised"}
    /\ call' = IdleCall
    /\ UNCHANGED <<service, returned, groq, gemini, current_provider, conversation_history, tasks>>

NextProvider ==
    \/ \E inst \in Instances, op \in Ops :
         \E image \in ImageArgs(op), messages \in MessageArgs(op) :
            PCallSmart(inst, op, image, messages)
    \/ \E provider \in Backends, op \in Ops :
         \E image \in ImageArgs(op), messages \in MessageArgs(op) :
            PCallBackend(provider, op, image, messages)
    \/ \E outcome \in HttpOutcomes : PProbeReturn(outcome)
    \/ \E outcome \in HttpOutcomes : PResponse(outcome)
    \/ PDone

SpecProvider == InitProvider /\ [][NextProvider]_vars

-----------------------------------------------------------------------------
(* Properties of the provider abstraction, checked under SpecProvider.     *)

Smart == call.via = "smart"
Selected == call.provider # None
Probed == \E i \in 1..Len(call.reqs) : call.reqs[i] = ProbeRequest
GenerationRequests == SelectSeq(call.reqs, LAMBDA r : r # ProbeRequest)

\* C4: on the text path SmartAIProvider._get_available_provider follows a
\* strict priority: Groq whenever its credential is configured, whatever the
\* Gemini credential and without probing reachability; otherwise Gemini
\* whenever its credential is configured, again without a probe; otherwise
\* Ollama if and only if the reachability probe succeeds.
C4_TextPriority ==
    (Smart /\ ~NeedVision(call.op) /\ Selected) =>
        /\ Configured(groq) => (call.provider = "groq" /\ ~Probed)
        /\ (~Configured(groq) /\ Configured(gemini)) =>
                (call.provider = "gemini" /\ ~Probed)
        /\ (~Configured(groq) /\ ~Configured(gemini)) =>
                (Probed /\ (call.provider = "ollama" <=> Status200(call.probe)))

C4_Witness ==
    /\ Smart /\ call.op = "generate_text" /\ call.pc = "returned"
    /\ Configured(groq) /\ Configured(gemini) /\ call.provider = "groq"

\* C5: for every need_vision, credentials and reachability, selection ends
\* with a backend and never with an exception: an invocation that has got
\* past its probe holds one of the four backends, an exception leaves an
\* invocation only from the selected backend's operation, and a probe that
\* ended in an error or a non-200 status counted as "not reachable".
C5_SelectionTotal ==
    Smart =>
        /\ (call.pc \in {"request", "returned", "raised"}) => call.provider \in Backends
        /\ (call.probe # None) => call.provider \in Backends
        /\ (call.probe \in HttpOutcomes /\ ~Status200(call.probe)) =>
                call.provider # "ollama"

C5_Witness ==
    /\ Smart /\ ~Configured(groq) /\ ~Configured(gemini)
    /\ call.probe = "client_error" /\ call.provider = "huggingface"

\* C6 as stated: when no backend qualifies on the text path (no Groq
\* credential, no Gemini credential, probe not successful), selection falls
\* through to Groq, the first backend of the text preference list.
C6_FallsThroughToGroq ==
    (Smart /\ ~NeedVision(call.op) /\ ~Configured(groq) /\ ~Configured(gemini)
       /\ call.probe \in HttpOutcomes /\ ~Status200(call.probe))
    => call.provider = "groq"

\* C6 amended: in that case selection falls through to the HuggingFace
\* backend, and the text the caller receives is what HuggingFace's own
\* operation returns for the way its request ended.
C6_FallsThroughToHuggingFace ==
    (Smart /\ ~NeedVision(call.op) /\ ~Configured(groq) /\ ~Configured(gemini)
       /\ call.probe \in HttpOutcomes /\ ~Status200(call.probe))
    => /\ call.provider = "huggingface"
       /\ \A i \in 1..Len(GenerationRequests) :
            GenerationRequests[i].to = "huggingface"
       /\ call.pc = "returned" =>
            /\ call.result = HuggingFace_generate_text(call.response)
            /\ IsFailure(call.response) => call.result.text \in {"Error: {body}", "Error: {e}"}

C6_Witness ==
    /\ Smart /\ call.op = "chat" /\ ~Configured(groq) /\ ~Configured(gemini)
    /\ call.probe = "500" /\ call.pc = "returned" /\ call.response = "500"
    /\ call.result.text = "Error: {body}"

\* C7: vision and text use separate orders.  analyze_image selects with
\* need_vision=True: HuggingFace for every combination of credentials, with
\* no reachability probe.  generate_text and chat select with
\* need_vision=False: a configured Groq wins, and HuggingFace is reached only
\* after a probe that did not succeed.
C7_VisionTextSplit ==
    Smart =>
        /\ (call.op = "analyze_image" /\ call.pc # "idle") =>
                (call.provider = "huggingface" /\ ~Probed /\ call.probe = None)
        /\ (call.op \in {"generate_text", "chat"} /\ Selected) =>
                /\ Configured(groq) => call.provider = "groq"
                /\ call.provider = "huggingface" =>
                        (Probed /\ call.probe \in HttpOutcomes
                                /\ ~Status200(call.probe))

C7_Witness ==
    /\ Smart /\ call.op = "analyze_image" /\ call.pc = "returned"
    /\ Configured(groq) /\ Configured(gemini) /\ call.provider = "huggingface"

\* C8: for each concrete backend and each of analyze_image, generate_text
\* and chat: when the operation's HTTP request fails at the transport level,
\* times out or returns a non-success status, the operation returns an error
\* string and does not raise.
C8_FailureGivesErrorText ==
    (call.via \in Backends /\ call.pc \in {"returned", "raised"}
       /\ Len(call.reqs) > 0) =>
        /\ call.pc = "returned"
        /\ IsFailure(call.response) => call.result.kind = "error"

C8_Witness ==
    /\ call.via = "ollama" /\ call.op = "analyze_image" /\ call.pc = "returned"
    /\ call.response = "timeout" /\ call.result.kind = "error"

\* C9: callers of SmartAIProvider.analyze_image, generate_text and chat
\* always receive text and never an exception, for every argument value.
C9_NeverRaises ==
    Smart => call.pc # "raised"

\* C10: no retries and no failover: an invocation of SmartAIProvider issues
\* at most one generation request, to the backend it selected; once that
\* request has ended the invocation is over, and when the request failed the
\* text returned is that backend's error text.
C10_NoRetryNoFailover ==
    Smart =>
        /\ Len(GenerationRequests) <= 1
        /\ \A i \in 1..Len(GenerationRequests) :
            GenerationRequests[i].to = call.provider
        /\ (call.response # None) =>
            /\ call.pc \in {"returned", "raised"}
            /\ Len(GenerationRequests) = 1
        /\ (call.pc = "returned" /\ IsFailure(call.response)) =>
            /\ call.result = BackendResult(call.provider, call.op, call.response)
            /\ call.result.kind = "error"

C10_Witness ==
    /\ Smart /\ call.op = "chat" /\ call.provider = "groq" /\ Configured(gemini)
    /\ call.pc = "returned" /\ call.response = "500"
    /\ call.result.text = "Groq API Error: {body}"

\* C26: provider choice has no stickiness.  In every step in which an
\* invocation of SmartAIProvider gets its backend, the backend is the value
\* of _get_available_provider for need_vision, the two credentials and the
\* result of this invocation's own probe, whatever current_provider held
\* before the step and whatever earlier invocations selected; a text
\* invocation whose instance selected Ollama before and whose own probe does
\* not succeed selects HuggingFace, a different backend.
C26_NoStickiness ==
    [][(call'.via = "smart" /\ call.provider = None /\ call'.provider # None) =>
          /\ call'.provider =
                get_available_provider(NeedVision(call'.op), groq, gemini,
                                       Status200(call'.probe))
          /\ (call.pc = "probe" /\ current_provider[call.inst] = "ollama"
                 /\ ~Status200(call'.probe)) =>
                (call'.provider = "huggingface"
                   /\ current_provider'[call.inst] = "huggingface")]_vars

\* A second text invocation of an instance whose earlier invocation selected
\* Ollama is awaiting its own probe.
C26_Witness ==
    /\ Smart /\ call.op = "chat" /\ call.pc = "probe"
    /\ current_provider[call.inst] = "ollama"

-----------------------------------------------------------------------------
(* ConversationalService: intent detection.                                *)

\* The characters of the message texts and crop names used as inputs.
Chars(message) ==
    CASE message = "Hi" -> <<"H", "i">>
      [] message = "Rain?" -> <<"R", "a", "i", "n", "?">>
      [] message = "my plants" -> <<"m", "y", " ", "p", "l", "a", "n", "t", "s">>
      [] message = "Spray plan" -> <<"S", "p", "r", "a", "y", " ", "p", "l", "a", "n">>
      [] message = "RAIN" -> <<"R", "A", "I", "N">>
      [] message = "ra in" -> <<"r", "a", " ", "i", "n">>
      [] message = "sprays" -> <<"s", "p", "r", "a", "y", "s">>
      [] message = "temperatur" -> <<"t", "e", "m", "p", "e", "r", "a", "t", "u", "r">>
      [] message = "IPM" -> <<"I", "P", "M">>
      [] message = "long term" -> <<"l", "o", "n", "g", " ", "t", "e", "r", "m">>
      [] message = "longterm" -> <<"l", "o", "n", "g", "t", "e", "r", "m">>
      [] message = "explain" -> <<"e", "x", "p", "l", "a", "i", "n">>
      [] message = "wind strategy" ->
            <<"w", "i", "n", "d", " ", "s", "t", "r", "a", "t", "e", "g", "y">>
      [] message = "Tomato" -> <<"T", "o", "m", "a", "t", "o">>
      [] message = "tomato" -> <<"t", "o", "m", "a", "t", "o">>
      [] message = "potato" -> <<"p", "o", "t", "a", "t", "o">>
      [] message = "corn" -> <<"c", "o", "r", "n">>
      [] message = "rice" -> <<"r", "i", "c", "e">>
      [] message = "aphids" -> <<"a", "p", "h", "i", "d", "s">>
      [] message = "Aphids" -> <<"A", "p", "h", "i", "d", "s">>
      [] message = "rust" -> <<"r", "u", "s", "t">>
      [] OTHER -> <<>>

UpperCase == <<"A", "B", "C", "D", "E", "F", "G", "H", "I", "J", "K", "L", "M">> \o
             <<"N", "O", "P", "Q", "R", "S", "T", "U", "V", "W", "X", "Y", "Z">>

\* str.lower(), character by character.
Lower(text) ==
    LET LowerCase ==
            <<"a", "b", "c", "d", "e", "f", "g", "h", "i", "j", "k", "l", "m">> \o
            <<"n", "o", "p", "q", "r", "s", "t", "u", "v", "w", "x", "y", "z">> IN
    [i \in 1..Len(text) |->
        IF \E k \in 1..Len(UpperCase) : UpperCase[k] = text[i]
        THEN LowerCase[CHOOSE k \in 1..Len(UpperCase) : UpperCase[k] = text[i]]
        ELSE text[i]]

\* `kw in text`: kw occurs as a contiguous substring.
Contains(text, kw) ==
    \E i \in 1..(Len(text) - Len(kw) + 1) : SubSeq(text, i, i + Len(kw) - 1) = kw

weather_keywords ==
    { <<"w", "e", "a", "t", "h", "e", "r">>,
      <<"r", "a", "i", "n">>,
      <<"t", "e", "m", "p", "e", "r", "a", "t", "u", "r", "e">>,
      <<"h", "u", "m", "i", "d", "i", "t", "y">>,
      <<"s", "p", "r", "a", "y">>,
      <<"w", "i", "n", "d">>,
      <<"f", "o", "r", "e", "c", "a", "s", "t">> }

ipm_keywords ==
    { <<"i", "p", "m">>,
      <<"s", "t", "r", "a", "t", "e", "g", "y">>,
      <<"p", "l", "a", "n">>,
      <<"t", "r", "e", "a", "t", "m", "e", "n", "t", " ", "p", "l", "a", "n">>,
      <<"m", "a", "n", "a", "g", "e", "m", "e", "n", "t", " ", "p", "l", "a", "n">>,
      <<"l", "o", "n", "g", " ", "t", "e", "r", "m">> }

detect_intent_ipm_first(message) ==
    LET message_lower == Lower(Chars(message)) IN
    IF \E kw \in ipm_keywords : Contains(message_lower, kw) THEN "ipm"
    ELSE IF \E kw \in weather_keywords : Contains(message_lower, kw) THEN "weather"
    ELSE "general"

\* ConversationalService._detect_intent
detect_intent(message) ==
    LET message_lower == Lower(Chars(message)) IN
    IF \E kw \in weather_keywords : Contains(message_lower, kw) THEN "weather"
    ELSE IF \E kw \in ipm_keywords : Contains(message_lower, kw) THEN "ipm"
    ELSE "general"

-----------------------------------------------------------------------------
(* WeatherService: the risk rules.  Temperatures (degrees C), humidity (%),*)
(* precipitation (mm) and wind speed (km/h) are floats with one decimal as *)
(* the weather provider reports them; the model counts tenths.             *)

Tenths(x) == 10 * x

fungal_disease_risk_at_80(temp, humidity) ==
    IF humidity >= Tenths(80) /\ Tenths(15) <= temp /\ temp <= Tenths(25) THEN "high"
    ELSE IF humidity > Tenths(70) /\ Tenths(10) <= temp /\ temp <= Tenths(28)
         THEN "medium"
    ELSE "low"

\* `if humidity > 80 and 15 <= temp <= 25: ... elif humidity > 70 and ...`
fungal_disease_risk(temp, humidity) ==
    IF humidity > Tenths(80) /\ Tenths(15) <= temp /\ temp <= Tenths(25) THEN "high"
    ELSE IF humidity > Tenths(70) /\ Tenths(10) <= temp /\ temp <= Tenths(28)
         THEN "medium"
    ELSE "low"

\* `if temp > 25 and (humidity > 85 or precipitation > 5): ... elif ...`
bacterial_disease_risk(temp, humidity, precipitation) ==
    IF temp > Tenths(25) /\ (humidity > Tenths(85) \/ precipitation > Tenths(5))
    THEN "high"
    ELSE IF temp > Tenths(20) /\ humidity > Tenths(75) THEN "medium"
    ELSE "low"

pest_activity_risk_any_humidity(temp, humidity) ==
    IF temp > Tenths(25) THEN "high"
    ELSE IF temp > Tenths(20) THEN "medium"
    ELSE "low"

\* `if temp > 25 and humidity < 60: ... elif temp > 20: ...`
pest_activity_risk(temp, humidity) ==
    IF temp > Tenths(25) /\ humidity < Tenths(60) THEN "high"
    ELSE IF temp > Tenths(20) THEN "medium"
    ELSE "low"

\* `if wind_speed > 15: ... elif precipitation > 0: ... elif humidity < 40:`
spray_conditions(wind_speed, precipitation, humidity) ==
    IF wind_speed > Tenths(15) THEN "poor"
    ELSE IF precipitation > 0 THEN "poor"
    ELSE IF humidity < Tenths(40) THEN "moderate"
    ELSE "good"

risk_alerts_high_only(fungal, bacterial, pest, wind_speed, precipitation) ==
    (IF fungal = "high"
     THEN <<"High risk of fungal diseases (Late Blight, Powdery Mildew)">> ELSE <<>>)
    \o (IF bacterial = "high"
        THEN <<"Conditions favor bacterial diseases">> ELSE <<>>)
    \o (IF pest = "high"
        THEN <<"High pest activity expected (aphids, mites)">> ELSE <<>>)
    \o (IF wind_speed > Tenths(15)
        THEN <<"Too windy for spraying - wait for calmer conditions">>
        ELSE IF precipitation > 0
        THEN <<"Rain expected - delay spraying">> ELSE <<>>)

\* risks["alerts"] after the four rule blocks, in the order they append
\* (the strings without their leading pictograph).
risk_alerts(fungal, bacterial, pest, wind_speed, precipitation) ==
    (IF fungal = "high"
     THEN <<"High risk of fungal diseases (Late Blight, Powdery Mildew)">>
     ELSE IF fungal = "medium"
     THEN <<"Monitor for early signs of fungal infection">> ELSE <<>>)
    \o (IF bacterial = "high"
        THEN <<"Conditions favor bacterial diseases">> ELSE <<>>)
    \o (IF pest = "high"
        THEN <<"High pest activity expected (aphids, mites)">> ELSE <<>>)
    \o (IF wind_speed > Tenths(15)
        THEN <<"Too windy for spraying - wait for calmer conditions">>
        ELSE IF precipitation > 0
        THEN <<"Rain expected - delay spraying">> ELSE <<>>)

\* risks["recommendations"] likewise.
risk_recommendations(fungal, bacterial, pest, spray) ==
    (IF fungal = "high" THEN <<"Apply preventive fungicide spray">> ELSE <<>>)
    \o (IF bacterial = "high" THEN <<"Avoid overhead irrigation">> ELSE <<>>)
    \o (IF pest = "high" THEN <<"Scout fields regularly for pest presence">> ELSE <<>>)
    \o (IF spray = "moderate"
        THEN <<"Spray early morning or evening for better absorption">> ELSE <<>>)

\* risk_scores = {"low": 1, "medium": 2, "high": 3}
risk_scores(level) ==
    CASE level = "low" -> 1 [] level = "medium" -> 2 [] level = "high" -> 3

\* round(n / d) for n >= 0, d > 0: Python rounds a tie to the even integer.
Round(n, d) ==
    LET q == n \div d
        r == n % d IN
    IF 2 * r < d THEN q
    ELSE IF 2 * r > d THEN q + 1
    ELSE IF q % 2 = 0 THEN q ELSE q + 1

overall_risk_score_truncated(total) == (total * 333) \div 30

\* round(avg_risk * 33.3) with avg_risk = total / 3, total the sum of the
\* three risk_scores: total * 333 / 30.
overall_risk_score(total) == Round(total * 333, 30)

\* "low" if avg_risk < 1.5 else "medium" if avg_risk < 2.5 else "high":
\* total / 3 < 3 / 2, then total / 3 < 5 / 2.
overall_risk_level(total) ==
    IF 2 * total < 3 * 3 THEN "low"
    ELSE IF 2 * total < 3 * 5 THEN "medium"
    ELSE "high"

\* WeatherService.analyze_disease_risk
analyze_disease_risk(weather_data) ==
    LET temp == Get(weather_data, "temperature", Tenths(25))
        humidity == Get(weather_data, "humidity", Tenths(50))
        precipitation == Get(weather_data, "precipitation", 0)
        wind_speed == Get(weather_data, "wind_speed", Tenths(5))
        fungal == fungal_disease_risk(temp, humidity)
        bacterial == bacterial_disease_risk(temp, humidity, precipitation)
        pest == pest_activity_risk(temp, humidity)
        spray == spray_conditions(wind_speed, precipitation, humidity)
        total == risk_scores(fungal) + risk_scores(bacterial) + risk_scores(pest)
    IN  [fungal_disease_risk |-> fungal,
         bacterial_disease_risk |-> bacterial,
         pest_activity_risk |-> pest,
         spray_conditions |-> spray,
         alerts |-> risk_alerts(fungal, bacterial, pest, wind_speed, precipitation),
         recommendations |-> risk_recommendations(fungal, bacterial, pest, spray),
         overall_risk_score |-> overall_risk_score(total),
         overall_risk_level |-> overall_risk_level(total)]

\* The window get_optimal_spray_windows appends for a day it keeps.
spray_window(day) ==
    LET wind == Get(day, "wind_speed", 0)
        rain == Get(day, "precipitation", 0)
        humidity == Get(day, "humidity", Tenths(50)) IN
    [date |-> Get(day, "date", None),
     quality |-> IF humidity > Tenths(50) /\ humidity < Tenths(80)
                 THEN "excellent" ELSE "good",
     recommended_time |-> "Early morning (6-9 AM) or evening (5-7 PM)",
     conditions |-> [wind_speed |-> wind, precipitation |-> rain,
                     humidity |-> humidity]]

spray_day_inclusive(day) ==
    Get(day, "wind_speed", 0) <= Tenths(10) /\ Get(day, "precipitation", 0) < Tenths(1)

\* `if wind < 10 and rain < 1`
spray_day(day) ==
    Get(day, "wind_speed", 0) < Tenths(10) /\ Get(day, "precipitation", 0) < Tenths(1)

\* WeatherService.get_optimal_spray_windows
RECURSIVE get_optimal_spray_windows(_)
get_optimal_spray_windows(forecast) ==
    IF forecast = <<>> THEN <<>>
    ELSE (IF spray_day(Head(forecast)) THEN <<spray_window(Head(forecast))>>
          ELSE <<>>)
         \o get_optimal_spray_windows(Tail(forecast))

-----------------------------------------------------------------------------
(* IPMStrategyService.predict_outbreak_risk: the per-day score.            *)

\* temp2 below is day.get("temp_max", 20) + day.get("temp_min", 10): twice
\* the `temp` of the code.

\* risk_score after the three `if` blocks.
risk_score(humidity, temp2, rain) ==
    (IF humidity > Tenths(80) THEN 30 ELSE IF humidity > Tenths(70) THEN 15 ELSE 0)
    + (IF 2 * Tenths(15) <= temp2 /\ temp2 <= 2 * Tenths(25) THEN 20 ELSE 0)
    + (IF rain > Tenths(5) THEN 25 ELSE IF rain > 0 THEN 10 ELSE 0)

\* risk_factors likewise.
risk_factors(humidity, temp2, rain) ==
    (IF humidity > Tenths(80) THEN <<"High humidity">> ELSE <<>>)
    \o (IF 2 * Tenths(15) <= temp2 /\ temp2 <= 2 * Tenths(25)
        THEN <<"Optimal fungal growth temperature">> ELSE <<>>)
    \o (IF rain > Tenths(5) THEN <<"Significant rainfall">> ELSE <<>>)

risk_level_above_60(score) ==
    IF score < 30 THEN "low" ELSE IF score <= 60 THEN "medium" ELSE "high"

\* "low" if risk_score < 30 else "medium" if risk_score < 60 else "high"
risk_level(score) ==
    IF score < 30 THEN "low" ELSE IF score < 60 THEN "medium" ELSE "high"

Min(a, b) == IF a < b THEN a ELSE b

\* IPMStrategyService._get_diseases_at_risk
get_diseases_at_risk(temp2, humidity, rain) ==
    LET diseases ==
            (IF humidity > Tenths(80) /\ 2 * Tenths(15) <= temp2
                  /\ temp2 <= 2 * Tenths(25)
             THEN <<"Late Blight", "Downy Mildew", "Powdery Mildew">> ELSE <<>>)
            \o (IF temp2 > 2 * Tenths(25) /\ humidity > Tenths(70)
                THEN <<"Bacterial Spot", "Bacterial Wilt">> ELSE <<>>)
            \o (IF rain > Tenths(10) THEN <<"Root Rot", "Damping Off">> ELSE <<>>)
            \o (IF humidity < Tenths(50) /\ temp2 > 2 * Tenths(25)
                THEN <<"Spider Mite infestation", "Aphid outbreak">> ELSE <<>>)
    IN  SubSeq(diseases, 1, Min(Len(diseases), 4))

\* The record predict_outbreak_risk appends to daily_risks for one day.
daily_risk(day) ==
    LET temp2 == Get(day, "temp_max", Tenths(20)) + Get(day, "temp_min", Tenths(10))
        humidity == Get(day, "humidity", Tenths(50))
        rain == Get(day, "precipitation", 0)
        score == risk_score(humidity, temp2, rain) IN
    [date |-> Get(day, "date", None),
     risk_score |-> Min(score, 100),
     risk_level |-> risk_level(score),
     factors |-> risk_factors(humidity, temp2, rain),
     diseases_at_risk |-> get_diseases_at_risk(temp2, humidity, rain)]

\* IPMStrategyService._get_predictive_recommendations
get_predictive_recommendations(daily_risks) ==
    LET high_risk_count ==
            Cardinality({i \in 1..Len(daily_risks) : daily_risks[i].risk_level = "high"})
        rainy_days ==
            {i \in 1..Len(daily_risks) :
                \E k \in 1..Len(daily_risks[i].factors) :
                    daily_risks[i].factors[k] = "Significant rainfall"}
    IN  (IF high_risk_count >= 3
         THEN <<"HIGH ALERT: Apply preventive fungicide treatment immediately",
                "Increase field monitoring to daily inspections">>
         ELSE IF high_risk_count >= 1
         THEN <<"Apply preventive organic treatment (neem oil or copper spray)",
                "Monitor closely for early disease symptoms">>
         ELSE <<>>)
        \o (IF rainy_days # {}
            THEN <<"Ensure proper drainage before rainfall",
                   "Apply treatments before rain, not after">> ELSE <<>>)
        \o <<"Remove any diseased plant material immediately">>

\* predict_outbreak_risk once get_forecast has returned `forecast`.
predict_outbreak_risk(forecast, latitude, longitude, crop) ==
    IF "error" \in DOMAIN forecast THEN [error |-> forecast["error"]]
    ELSE
        LET days == Get(forecast, "forecast", <<>>)
            daily_risks == [i \in 1..Len(days) |-> daily_risk(days[i])]
            peak_risk_days == SelectSeq(daily_risks, LAMBDA d : d.risk_level = "high")
        IN  [crop |-> crop,
             location |-> [latitude |-> latitude, longitude |-> longitude],
             daily_risks |-> daily_risks,
             peak_risk_days |-> peak_risk_days,
             overall_outlook |->
                IF Len(peak_risk_days) >= 3 THEN "high_alert"
                ELSE IF Len(peak_risk_days) >= 1 THEN "moderate"
                ELSE "favorable",
             recommendations |-> get_predictive_recommendations(daily_risks)]

-----------------------------------------------------------------------------
(* Response normalisation: the texts the AI provider returns and the three *)
(* parsers (_parse_disease_response, _parse_health_map_response,           *)
(* _parse_strategy_response).  A text is a sequence of lexical pieces:     *)
(*    "{"  "}"  ","   the characters themselves                            *)
(*    "a"  "b"        a member with a scalar value, as in                  *)
(*                    "disease_name": "Late Blight"                        *)
(*    "d"  "h"        the member  "disease_detected": true  (diseased) and *)
(*                    "disease_detected": false  (healthy)                 *)
(*    "c"  "e"        the member  "companion_planting": [...]  with one    *)
(*                    plant, and with none                                 *)
(*    "n"             the key and colon of a member whose value is an      *)
(*                    object, as in  "treatment_organic":                  *)
(*    "w"             a run of prose without braces                        *)

JSONDecodeError == [ok |-> FALSE, next |-> 0, value |-> EmptyDict]

\* json.loads on an object: `json_object` reads the object that starts at
\* text[i], `json_members` its members from text[i] on (pairs is the dict
\* built so far: a repeated key keeps its last value).  Both return the
\* position after what they read.
RECURSIVE json_object(_, _), json_members(_, _, _)

json_members(text, i, pairs) ==
    IF i > Len(text) THEN JSONDecodeError
    ELSE
        LET member ==
                IF text[i] \in {"a", "b"}
                THEN [ok |-> TRUE, next |-> i + 1,
                      value |-> IF text[i] = "a" THEN "1" ELSE "2"]
                ELSE IF text[i] \in {"d", "h"}
                THEN [ok |-> TRUE, next |-> i + 1, value |-> text[i] = "d"]
                ELSE IF text[i] \in {"c", "e"}
                THEN [ok |-> TRUE, next |-> i + 1,
                      value |-> IF text[i] = "c" THEN <<"Borage">> ELSE <<>>]
                ELSE IF text[i] = "n" THEN json_object(text, i + 1)
                ELSE JSONDecodeError
            key == IF text[i] \in {"d", "h"} THEN "disease_detected"
                   ELSE IF text[i] \in {"c", "e"} THEN "companion_planting"
                   ELSE text[i]
        IN  IF ~member.ok \/ member.next > Len(text) THEN JSONDecodeError
            ELSE LET dict == DictSet(pairs, key, member.value) IN
                 IF text[member.next] = "}"
                 THEN [ok |-> TRUE, next |-> member.next + 1, value |-> dict]
                 ELSE IF text[member.next] = ","
                 THEN json_members(text, member.next + 1, dict)
                 ELSE JSONDecodeError

json_object(text, i) ==
    IF i + 1 > Len(text) THEN JSONDecodeError
    ELSE IF text[i] # "{" THEN JSONDecodeError
    ELSE IF text[i + 1] = "}"
         THEN [ok |-> TRUE, next |-> i + 2, value |-> EmptyDict]
    ELSE json_members(text, i + 1, EmptyDict)

\* json.loads(text): the whole text must be one object.
json_loads(text) ==
    LET object == json_object(text, 1) IN
    IF object.ok /\ object.next = Len(text) + 1 THEN object ELSE JSONDecodeError

\* json.dumps of a dict with keys among a, b, n: the text of the object.
RECURSIVE json_dumps(_)
json_dumps(dict) ==
    LET keys == SelectSeq(<<"a", "b", "n">>, LAMBDA k : k \in DOMAIN dict)
        member(k) == IF k = "n" THEN <<"n">> \o json_dumps(dict[k]) ELSE <<k>>
        members[i \in 0..Len(keys)] ==
            IF i = 0 THEN <<>>
            ELSE members[i - 1] \o (IF i = 1 THEN <<>> ELSE <<",">>) \o member(keys[i])
    IN  <<"{">> \o members[Len(keys)] \o <<"}">>

NoMatch == [found |-> FALSE, group |-> <<>>]

re_search_non_greedy(text) ==
    LET opens == {i \in 1..Len(text) : text[i] = "{"}
        closes == {i \in 1..Len(text) : text[i] = "}"}
        first == CHOOSE i \in opens : \A j \in opens : i <= j
        after == {j \in closes : j > first}
    IN  IF opens = {} \/ closes = {} THEN NoMatch
        ELSE IF after = {} THEN NoMatch
        ELSE [found |-> TRUE,
              group |-> SubSeq(text, first,
                               CHOOSE i \in after : \A j \in after : i <= j)]

\* re.search(r'\{[\s\S]*\}', text): from the first "{" that has a "}" after
\* it to the last "}" of the text.
re_search(text) ==
    LET opens == {i \in 1..Len(text) : text[i] = "{"}
        closes == {i \in 1..Len(text) : text[i] = "}"}
        first == CHOOSE i \in opens : \A j \in opens : i <= j
        last == CHOOSE i \in closes : \A j \in closes : j <= i
    IN  IF opens = {} \/ closes = {} THEN NoMatch
        ELSE IF first > last THEN NoMatch
        ELSE [found |-> TRUE, group |-> SubSeq(text, first, last)]

\* The fallback record of each parser.
DiseaseFallback(response) ==
    [disease_detected |-> TRUE, disease_name |-> "Analysis Complete",
     confidence |-> "0.7", description |-> response, urgency_level |-> "medium",
     treatment_organic |-> EmptyDict, treatment_chemical |-> EmptyDict,
     parse_error |-> TRUE]

HealthMapFallback(response) ==
    [overall_health_score |-> 70, zones |-> <<>>, recommendations |-> <<response>>,
     parse_error |-> TRUE]

StrategyFallback(response) ==
    [strategy_name |-> "Generated Strategy", raw_strategy |-> response,
     immediate_actions |-> <<[action |-> "See detailed analysis", priority |-> "high"]>>,
     parse_error |-> TRUE]

parse_disease_response_uncaught(response) ==
    LET json_match == re_search(response) IN
    IF ~json_match.found THEN Returned(DiseaseFallback(response))
    ELSE IF json_loads(json_match.group).ok
         THEN Returned(json_loads(json_match.group).value)
    ELSE Raised

\* DiseaseDetectionService._parse_disease_response
parse_disease_response(response) ==
    LET json_match == re_search(response) IN
    IF json_match.found /\ json_loads(json_match.group).ok
    THEN Returned(json_loads(json_match.group).value)
    ELSE Returned(DiseaseFallback(response))

\* DiseaseDetectionService._parse_health_map_response
parse_health_map_response(response) ==
    LET json_match == re_search(response) IN
    IF json_match.found /\ json_loads(json_match.group).ok
    THEN Returned(json_loads(json_match.group).value)
    ELSE Returned(HealthMapFallback(response))

\* IPMStrategyService._parse_strategy_response
parse_strategy_response(response) ==
    LET json_match == re_search(response) IN
    IF json_match.found /\ json_loads(json_match.group).ok
    THEN Returned(json_loads(json_match.group).value)
    ELSE Returned(StrategyFallback(response))

-----------------------------------------------------------------------------
(* The weather client, as far as the services below read its results.      *)

\* WeatherService.get_current_weather once its request has ended; data is
\* the JSON the weather provider sent.
get_current_weather(outcome, data) ==
    CASE outcome = "200" ->
            LET current == Get(data, "current", EmptyDict) IN
            [temperature |-> Get(current, "temperature_2m", 0),
             humidity |-> Get(current, "relative_humidity_2m", 0),
             precipitation |-> Get(current, "precipitation", 0),
             wind_speed |-> Get(current, "wind_speed_10m", 0)]
      [] outcome = "client_error" -> [error |-> "str(e)"]
      [] OTHER -> [error |-> "Failed to fetch weather data"]

\* What the weather provider answers for current conditions: 20 C at 85 %
\* humidity, no rain, wind 5 km/h.
CurrentData ==
    { [current |-> [temperature_2m |-> Tenths(20), relative_humidity_2m |-> Tenths(85),
                    precipitation |-> 0, wind_speed_10m |-> Tenths(5)]] }

\* WeatherService.get_forecast once its request has ended; days is the
\* provider's daily data, one record per date.
get_forecast(outcome, days, latitude, longitude) ==
    CASE outcome = "200" ->
            [location |-> [latitude |-> latitude, longitude |-> longitude],
             forecast |-> days]
      [] outcome = "client_error" -> [error |-> "str(e)"]
      [] OTHER -> [error |-> "Failed to fetch forecast"]

Day(date, temp_max, temp_min, precipitation, humidity, wind_speed) ==
    [date |-> date, temp_max |-> temp_max, temp_min |-> temp_min,
     precipitation |-> precipitation, humidity |-> humidity,
     wind_speed |-> wind_speed]

-----------------------------------------------------------------------------
(* The services that expect structured output: analyze_leaf, analyze_field *)
(* (DiseaseDetectionService) and generate_strategy (IPMStrategyService).   *)

\* The text of an operation's result, given the body of the backend's
\* response: the model's reply on success, else the error body.  str(data)
\* of the JSON value a 200 response carried is Python's repr of a dict,
\* which quotes with ', so only the empty dict prints as JSON.
ResponseText(result, body) ==
    CASE result.kind = "reply" -> body
      [] result.text \in {"Error: {body}", "Groq API Error: {body}",
                          "Gemini Error: {body}", "HuggingFace Error: {body}"} ->
            <<"w">> \o body
      [] result.text = "str(data)" ->
            IF json_loads(body).ok /\ json_loads(body).value = EmptyDict
            THEN <<"{", "}">> ELSE <<"{", "w", "}">>
      [] result.text = "" -> <<>>
      [] OTHER -> <<"w">>

\* analyze_leaf from the return of self.ai.analyze_image on.
analyze_leaf(response) ==
    LET result == parse_disease_response(response) IN
    IF result.status = "raised" THEN Raised
    ELSE Returned(DictSet(result.value, "raw_analysis", response))

\* analyze_field likewise.
analyze_field(response) ==
    LET result == parse_health_map_response(response) IN
    IF result.status = "raised" THEN Raised
    ELSE Returned(DictSet(result.value, "raw_analysis", response))

get_companion_plants_as_typed(crop) ==
    LET key == Chars(crop) IN
    IF key = Chars("tomato") THEN <<"Basil", "Marigold", "Garlic">>
    ELSE IF key = Chars("potato") THEN <<"Horseradish", "Marigold">>
    ELSE IF key = Chars("corn") THEN <<"Beans", "Squash">>
    ELSE <<"Marigold", "Nasturtium">>

\* IPMStrategyService._get_companion_plants: the plants of the crop's row.
get_companion_plants(crop) ==
    LET key == Lower(Chars(crop)) IN
    IF key = Chars("tomato") THEN <<"Basil", "Marigold", "Garlic">>
    ELSE IF key = Chars("potato") THEN <<"Horseradish", "Marigold">>
    ELSE IF key = Chars("corn") THEN <<"Beans", "Squash">>
    ELSE <<"Marigold", "Nasturtium">>

\* generate_strategy from the return of self.ai.generate_text on; svc holds
\* its arguments and locals.
generate_strategy(svc, response) ==
    LET parsed == parse_strategy_response(response)
        spray_windows ==
            get_optimal_spray_windows(Get(svc.forecast, "forecast", <<>>))
        weather ==
            IF DOMAIN svc.weather_risks = {} THEN parsed.value
            ELSE IF TruthyFloat(svc.latitude) /\ TruthyFloat(svc.longitude)
            THEN DictSet(DictSet(parsed.value, "weather_analysis", svc.weather_risks),
                         "optimal_spray_windows",
                         SubSeq(spray_windows, 1, Min(Len(spray_windows), 3)))
            ELSE DictSet(parsed.value, "weather_analysis", svc.weather_risks)
        strategy ==
            IF "companion_planting" \in DOMAIN weather
               /\ Len(weather["companion_planting"]) > 0
            THEN weather
            ELSE DictSet(weather, "companion_planting", get_companion_plants(svc.crop))
    IN  IF parsed.status = "raised" THEN Raised ELSE Returned(strategy)

\* generate_strategy: `weather_risks = {}`, assigned the assessment only
\* `if "error" not in current`.
strategy_weather_risks(current) ==
    IF "error" \notin DOMAIN current THEN analyze_disease_risk(current)
    ELSE EmptyDict

chat_weather_risks_unless_error(weather) ==
    IF "error" \notin DOMAIN weather THEN analyze_disease_risk(weather)
    ELSE EmptyDict

\* chat(), weather branch: `risks = ...analyze_disease_risk(weather)`, with
\* no test of the record get_current_weather returned.
chat_weather_risks(weather) == analyze_disease_risk(weather)

\* chat(), weather branch: what weather_msg shows.  A reading the record
\* lacks is printed as None; the alerts are listed when there are any.
weather_msg(weather, risks) ==
    LET shown(key) == IF key \in DOMAIN weather THEN Float(weather[key]) ELSE NoFloat IN
    [heading |-> "Current conditions at your location",
     temperature |-> shown("temperature"),
     humidity |-> shown("humidity"),
     wind_speed |-> shown("wind_speed"),
     fungal_disease_risk |-> Get(risks, "fungal_disease_risk", None),
     pest_activity_risk |-> Get(risks, "pest_activity_risk", None),
     spray_conditions |-> Get(risks, "spray_conditions", None),
     alerts |-> Get(risks, "alerts", <<>>)]

-----------------------------------------------------------------------------
(* ConversationalService.chat and clear_history behind the chat routes:    *)
(* concurrent request handlers on one event loop.  A handler runs without  *)
(* interruption from one await to the next; the awaits are the outbound    *)
(* HTTP requests (reachability probe, AI backend, weather provider).       *)

\* Number of requests the routes receive.
MaxTasks == 2

Tasks == 1..MaxTasks

Sessions == {"s1", "s2"}

\* The user messages of the turns: no keyword; a weather keyword (with a
\* capital) and an ipm keyword; an ipm keyword inside a longer word.
Messages == {"Hi", "Spray plan", "my plants"}

\* intent = self._detect_intent(user_message), for each input message.
IntentOf == [message \in Messages |-> detect_intent(message)]


\* (latitude, longitude) of a request: none given, on the equator, elsewhere.
Coordinates == { <<NoFloat, NoFloat>>, <<Float(0), Float(77)>>, <<Float(28), Float(77)>> }

\* How an AI backend's request ends in the chat scenarios: success or a
\* non-success status.
ChatOutcomes == {"200", "500"}

\* How the AI backend's request of a service call can end.
ServiceOutcomes == {"200", "200_other_body", "503", "500", "timeout"}

\* How the weather provider's request can end.
WeatherOutcomes == {"200", "500", "client_error"}

\* A request handler.  pc: "idle" (not yet received), "running" (suspended
\* at an await), "done".  stage: which await of chat() it is suspended at.
\* ai: its SmartAIProvider invocation while one is in progress.  ref: whether the list object it handed
\* to ai.chat is still the session's list ("live") or was replaced by
\* clear_history ("orphan", contents in `orphan`).  status: "returned", or
\* "raised" when an exception reached the route (answered 500).  message:
\* the text of a turn without image (with an image the text only goes into
\* the prompt built before the first await).
IdleTask ==
    [pc |-> "idle", kind |-> None, session |-> None, message |-> None,
     intent |-> None, coords |-> FALSE, stage |-> None, ai |-> IdleCall,
     ref |-> None, orphan |-> <<>>, image_analysis |-> None,
     response |-> None, status |-> None,
     calls |-> <<>>, analysis |-> <<>>, suggestions |-> <<>>,
     actions_available |-> <<>>, weather_msg |-> EmptyDict]

Entry(role, content) == [role |-> role, content |-> content]

EnsureSession_resets(history, s) ==
    [x \in DOMAIN history \cup {s} |-> IF x = s THEN <<>> ELSE history[x]]

\* `if session_id not in self.conversation_history: ... = []`
EnsureSession(history, s) ==
    IF s \in DOMAIN history THEN history
    ELSE [x \in DOMAIN history \cup {s} |-> IF x = s THEN <<>> ELSE history[x]]

AppendEntry_unless_present(history, s, entry) ==
    IF \E i \in 1..Len(history[s]) : history[s][i] = entry
    THEN history
    ELSE [history EXCEPT ![s] = Append(@, entry)]

AppendEntry_everywhere(history, s, entry) ==
    [x \in DOMAIN history |-> Append(history[x], entry)]

\* self.conversation_history[session_id].append(entry)
AppendEntry(history, s, entry) == [history EXCEPT ![s] = Append(@, entry)]

\* The list object a suspended general turn handed to ai.chat.
MessagesOf(task, history) ==
    IF task.ref = "live" THEN history[task.session] ELSE task.orphan

\* A handler whose invocation `d` has just been stepped: finished with an
\* exception when the invocation raised, else suspended at its await.
Suspend(task, d) ==
    IF d.pc = "raised"
    THEN [task EXCEPT !.pc = "done", !.status = "raised", !.ai = IdleCall,
                      !.ref = None, !.orphan = <<>>, !.image_analysis = None]
    ELSE [task EXCEPT !.pc = "running", !.ai = d]

\* A handler that returns `response` to its route; its locals are gone.
Return(task, response) ==
    [task EXCEPT !.pc = "done", !.status = "returned", !.ai = IdleCall,
                 !.ref = None, !.orphan = <<>>, !.image_analysis = None,
                 !.response = response]

InitChat ==
    /\ groq \in ProviderConfigs
    /\ gemini \in ProviderConfigs
    /\ current_provider = [i \in Instances |-> None]
    /\ call = IdleCall
    /\ conversation_history = EmptyHistory
    /\ tasks = [t \in Tasks |-> IdleTask]
    /\ service = IdleService
    /\ returned = NotReturned

\* Requests are numbered in their order of arrival.
NextToArrive(t) ==
    /\ tasks[t].pc = "idle"
    /\ \A u \in Tasks : u < t => tasks[u].pc # "idle"

\* chat() with an image, up to the await inside quick_diagnosis.
ChatImageBegin(t, s, message, image) ==
    /\ NextToArrive(t)
    /\ TruthyImage(image)
    /\ LET c == NewCall("smart", "disease_service", "analyze_image", image, <<>>)
           d == SmartBegin(c, <<>>)
           task == [IdleTask EXCEPT !.kind = "message", !.session = s,
                                    !.stage = "quick",
                                    !.calls = <<"quick_diagnosis">>] IN
       /\ conversation_history' = EnsureSession(conversation_history, s)
       /\ tasks' = [tasks EXCEPT ![t] = Suspend(task, d)]
       /\ current_provider' = SetCurrent(current_provider, c, d)
    /\ UNCHANGED <<service, returned, groq, gemini, call>>

\* chat() without an image, up to its first await or to its return.
ChatTextBegin(t, s, message, image, latitude, longitude) ==
    /\ NextToArrive(t)
    /\ ~TruthyImage(image)
    /\ LET h0 == EnsureSession(conversation_history, s)
           h1 == AppendEntry(h0, s, Entry("user", message))
           intent == IntentOf[message]
           coords == TruthyFloat(latitude) /\ TruthyFloat(longitude)
           task == [IdleTask EXCEPT !.kind = "message", !.session = s,
                                    !.message = message, !.intent = intent,
                                    !.coords = coords] IN
       /\ conversation_history' = h1
       /\ CASE intent = "weather" /\ coords ->
                /\ tasks' = [tasks EXCEPT ![t] =
                        [task EXCEPT !.pc = "running", !.stage = "weather"]]
                /\ UNCHANGED current_provider
            [] intent = "weather" /\ ~coords ->
                /\ tasks' = [tasks EXCEPT ![t] =
                        [Return(task, "share your location") EXCEPT
                            !.actions_available = <<"share_location">>]]
                /\ UNCHANGED current_provider
            [] intent = "ipm" ->
                /\ tasks' = [tasks EXCEPT ![t] =
                        [Return(task, "what disease or pest") EXCEPT
                            !.suggestions = <<"Late Blight on tomatoes",
                                              "Aphids on vegetables",
                                              "Powdery Mildew on cucumbers">>]]
                /\ UNCHANGED current_provider
            [] OTHER ->
                LET c == NewCall("smart", "chat_service", "chat", ImgNone, <<>>)
                    d == SmartBegin(c, h1[s]) IN
                /\ tasks' = [tasks EXCEPT ![t] =
                        Suspend([task EXCEPT !.stage = "general", !.ref = "live",
                                             !.calls = <<"chat">>], d)]
                /\ current_provider' = SetCurrent(current_provider, c, d)
    /\ UNCHANGED <<service, returned, groq, gemini, call>>

\* The reachability probe of a suspended turn ends: selection completes and
\* the selected backend's request is issued.
ChatProbeReturn(t, outcome) ==
    /\ tasks[t].pc = "running" /\ tasks[t].ai.pc = "probe"
    /\ LET task == tasks[t]
           d == SmartAfterProbe(task.ai, outcome,
                                MessagesOf(task, conversation_history)) IN
       /\ tasks' = [tasks EXCEPT ![t] = Suspend(task, d)]
       /\ current_provider' = SetCurrent(current_provider, task.ai, d)
    /\ UNCHANGED <<service, returned, groq, gemini, call, conversation_history>>

\* quick_diagnosis returns: chat() goes on to analyze_leaf, up to its await.
ChatQuickReturn(t, outcome) ==
    /\ tasks[t].pc = "running" /\ tasks[t].stage = "quick"
    /\ tasks[t].ai.pc = "request"
    /\ LET task == tasks[t]
           r == AfterResponse(task.ai, outcome)
           c == NewCall("smart", "disease_service", "analyze_image",
                        task.ai.image, <<>>)
           d == SmartBegin(c, <<>>) IN
       IF r.pc = "raised"
       THEN /\ tasks' = [tasks EXCEPT ![t] = Suspend(task, r)]
            /\ UNCHANGED current_provider
       ELSE /\ tasks' = [tasks EXCEPT ![t] =
                    Suspend([task EXCEPT !.stage = "leaf",
                                         !.image_analysis = r.result.text,
                                         !.calls = Append(@, "analyze_leaf")], d)]
            /\ current_provider' = SetCurrent(current_provider, c, d)
    /\ UNCHANGED <<service, returned, groq, gemini, call, conversation_history>>

\* The bodies the response to analyze_leaf's request carries: diagnoses
\* reporting a disease, a healthy plant, or neither; prose; prose around a
\* diagnosis; a broken object.
LeafBodies ==
    { <<"{", "d", ",", "a", "}">>, <<"{", "h", "}">>, <<"{", "a", "}">>,
      <<"{", "}">>, <<"w">>, <<"w", "{", "d", "}", "w">>, <<"{", "d">> }

merge_image_reply_always_suggests(task, detailed_analysis) ==
    [Return(task, task.image_analysis) EXCEPT
        !.analysis = detailed_analysis.value,
        !.suggestions =
            <<"Would you like a detailed IPM strategy for {disease}?",
              "Should I check the weather conditions for spraying?",
              "Want to see treatment options in detail?">>,
        !.actions_available = <<"get_ipm_strategy", "check_weather", "more_info">>]

\* chat() with an image, from the return of analyze_leaf on: the payload.
merge_image_reply(task, detailed_analysis) ==
    LET disease_detected ==
            Get(detailed_analysis.value, "disease_detected", FALSE) IN
    [Return(task, task.image_analysis) EXCEPT
        !.analysis = detailed_analysis.value,
        !.suggestions =
            IF disease_detected
            THEN <<"Would you like a detailed IPM strategy for {disease}?",
                   "Should I check the weather conditions for spraying?",
                   "Want to see treatment options in detail?">>
            ELSE <<>>,
        !.actions_available =
            IF disease_detected
            THEN <<"get_ipm_strategy", "check_weather", "more_info">> ELSE <<>>]

\* analyze_leaf returns (the backend's request ended with `body`): chat()
\* returns the merged payload.
ChatLeafReturn(t, outcome, body) ==
    /\ tasks[t].pc = "running" /\ tasks[t].stage = "leaf"
    /\ tasks[t].ai.pc = "request"
    /\ LET task == tasks[t]
           r == AfterResponse(task.ai, outcome) IN
       tasks' = [tasks EXCEPT ![t] =
            IF r.pc = "raised" THEN Suspend(task, r)
            ELSE merge_image_reply(task, analyze_leaf(ResponseText(r.result, body)))]
    /\ UNCHANGED <<service, returned, groq, gemini, call, current_provider, conversation_history>>

\* ai.chat returns: the reply is appended to the session's history.
ChatGeneralReturn(t, outcome) ==
    /\ tasks[t].pc = "running" /\ tasks[t].stage = "general"
    /\ tasks[t].ai.pc = "request"
    /\ LET task == tasks[t]
           r == AfterResponse(task.ai, outcome) IN
       IF r.pc = "raised"
       THEN /\ tasks' = [tasks EXCEPT ![t] = Suspend(task, r)]
            /\ UNCHANGED conversation_history
       ELSE /\ tasks' = [tasks EXCEPT ![t] = Return(task, r.result.text)]
            /\ conversation_history' =
                    AppendEntry(conversation_history, task.session,
                                Entry("assistant", r.result.text))
    /\ UNCHANGED <<service, returned, groq, gemini, call, current_provider>>

\* chat(), weather branch, from the return of get_current_weather to
\* response_data["message"]: the reply for each way the lookup can end.
WeatherReply ==
    [outcome \in WeatherOutcomes |-> [data \in CurrentData |->
        LET weather == get_current_weather(outcome, data) IN
        weather_msg(weather, chat_weather_risks(weather))]]

\* get_current_weather returns: the weather reply is built and returned.
ChatWeatherReturn(t, outcome, data) ==
    /\ tasks[t].pc = "running" /\ tasks[t].stage = "weather"
    /\ LET reply == WeatherReply[outcome][data] IN
       tasks' = [tasks EXCEPT ![t] =
                    [Return(@, reply.heading) EXCEPT !.weather_msg = reply]]
    /\ UNCHANGED <<service, returned, groq, gemini, call, current_provider, conversation_history>>

clear_history_deletes(history, s) ==
    [x \in DOMAIN history \ {s} |-> history[x]]

\* ConversationalService.clear_history
clear_history(history, s) ==
    IF s \in DOMAIN history THEN [history EXCEPT ![s] = <<>>] ELSE history

\* DELETE /chat/session/{session_id}.  A turn suspended with the session's
\* old list object in hand keeps that object, which nothing appends to any
\* more.
ClearSession(t, s) ==
    /\ NextToArrive(t)
    /\ conversation_history' = clear_history(conversation_history, s)
    /\ tasks' =
         [u \in Tasks |->
            IF u = t
            THEN [IdleTask EXCEPT !.pc = "done", !.kind = "clear", !.session = s,
                                  !.status = "returned"]
            ELSE IF tasks[u].pc = "running" /\ tasks[u].session = s
                    /\ tasks[u].ref = "live"
                 THEN [tasks[u] EXCEPT !.ref = "orphan",
                                       !.orphan = conversation_history[s]]
                 ELSE tasks[u]]
    /\ UNCHANGED <<service, returned, groq, gemini, call, current_provider>>

\* GET /chat/session/{session_id}: reads the session's history, or an empty
\* list for an unknown session, and answers with its length.
InspectSession(t, s) ==
    /\ NextToArrive(t)
    /\ LET history == Get(conversation_history, s, <<>>) IN
       tasks' = [tasks EXCEPT ![t] =
            [IdleTask EXCEPT !.pc = "done", !.kind = "inspect", !.session = s,
                             !.status = "returned",
                             !.analysis = [message_count |-> Len(history),
                                           has_history |-> Len(history) > 0]]]
    /\ UNCHANGED <<service, returned, groq, gemini, call, current_provider,
                   conversation_history>>

Next ==
    \/ \E t \in Tasks, s \in Sessions, message \in Messages :
         \E image \in {ImgValid, ImgInvalid} : ChatImageBegin(t, s, message, image)
    \/ \E t \in Tasks, s \in Sessions, message \in Messages :
         \E image \in {ImgNone, ImgEmpty}, where \in Coordinates :
            ChatTextBegin(t, s, message, image, where[1], where[2])
    \/ \E t \in Tasks, outcome \in ChatOutcomes : ChatProbeReturn(t, outcome)
    \/ \E t \in Tasks, outcome \in ChatOutcomes : ChatQuickReturn(t, outcome)
    \/ \E t \in Tasks, outcome \in ChatOutcomes, body \in { <<"w">> } :
            ChatLeafReturn(t, outcome, body)
    \/ \E t \in Tasks, outcome \in ChatOutcomes : ChatGeneralReturn(t, outcome)
    \/ \E t \in Tasks, outcome \in WeatherOutcomes, data \in CurrentData :
            ChatWeatherReturn(t, outcome, data)
    \/ \E t \in Tasks, s \in Sessions : ClearSession(t, s)
    \/ \E t \in Tasks, s \in Sessions : InspectSession(t, s)

Spec == InitChat /\ [][Next]_vars

\* SpecImageTurn: the first request alone, a chat turn with an image, for
\* every body the structured diagnosis can come back with.
NextImageTurn ==
    \/ \E s \in Sessions, message \in Messages, image \in {ImgValid, ImgInvalid} :
            ChatImageBegin(1, s, message, image)
    \/ \E outcome \in ChatOutcomes : ChatQuickReturn(1, outcome)
    \/ \E outcome \in ServiceOutcomes, body \in LeafBodies :
            ChatLeafReturn(1, outcome, body)

SpecImageTurn == InitChat /\ [][NextImageTurn]_vars

-----------------------------------------------------------------------------
(* Properties of a chat turn with an image, checked under SpecImageTurn.   *)

\* The step in which the turn with an image ends.
ImageTurnEnds == tasks[1].pc = "running" /\ tasks'[1].pc = "done"

\* The payload just returned carries the quick diagnosis as its message and
\* the structured diagnosis (what analyze_leaf makes of the text it was
\* handed, kept in raw_analysis) as its analysis.
MergedReply ==
    /\ tasks'[1].status = "returned"
    /\ tasks'[1].calls = <<"quick_diagnosis", "analyze_leaf">>
    /\ tasks'[1].response = tasks[1].image_analysis
    /\ "raw_analysis" \in DOMAIN tasks'[1].analysis
    /\ tasks'[1].analysis = analyze_leaf(tasks'[1].analysis.raw_analysis).value

-----------------------------------------------------------------------------
(* Properties of the conversational service, checked under Spec.           *)

\* The step changes the history of session s, or creates or removes it.
HistoryChanges(s) ==
    \/ (s \in DOMAIN conversation_history) # (s \in DOMAIN conversation_history')
    \/ /\ s \in DOMAIN conversation_history
       /\ conversation_history'[s] # conversation_history[s]

\* The handlers that take the step.
Stepping == { t \in Tasks : tasks'[t] # tasks[t] }

\* Handler t issues the request of a chat call in this step, with the
\* messages of the request's payload.
IssuesChat(t) ==
    /\ tasks'[t].ai.op = "chat" /\ tasks'[t].ai.pc = "request"
    /\ tasks[t].ai.pc # "request"

\* An entry of session s: what a turn on s sent, or what one was answered.
EntryOf(entry, s) ==
    \E u \in Tasks :
        /\ tasks'[u].session = s /\ tasks'[u].kind = "message"
        /\ \/ entry.role = "user" /\ entry.content = tasks'[u].message
           \/ entry.role = "assistant" /\ entry.content = tasks'[u].response

\* C25: sessions are independent: in every interleaving of chat turns,
\* clears and inspections, an operation addressed to session A never
\* changes the history of another session B, and the history passed to the
\* AI backend for a turn on A holds only messages of A.
C25_SessionsIndependent ==
    [][/\ \A s \in Sessions :
            HistoryChanges(s) =>
                (Stepping # {} /\ \A t \in Stepping : tasks'[t].session = s)
       /\ \A t \in Tasks :
            IssuesChat(t) =>
                LET request == tasks'[t].ai.reqs[Len(tasks'[t].ai.reqs)] IN
                \A i \in 1..Len(request.messages) :
                    EntryOf(request.messages[i], tasks'[t].session)]_vars

\* s1 holds a finished exchange while a turn on s2 has its chat request in
\* flight with its one message.
C25_Witness ==
    /\ "s1" \in DOMAIN conversation_history /\ "s2" \in DOMAIN conversation_history
    /\ Len(conversation_history["s1"]) = 2
    /\ \E t \in Tasks, u \in Tasks :
        /\ tasks[t].session = "s2" /\ tasks[t].ai.op = "chat"
        /\ tasks[t].ai.pc = "request"
        /\ Len(tasks[t].ai.reqs[Len(tasks[t].ai.reqs)].messages) = 1
        /\ tasks[u].session = "s1" /\ tasks[u].pc = "done"

\* The requests that addressed session s so far.
TasksOn(s) == { t \in Tasks : tasks[t].pc # "idle" /\ tasks[t].session = s }

\* A completed turn without image (its intent was detected).
TextTurn(t) ==
    /\ tasks[t].pc = "done" /\ tasks[t].kind = "message"
    /\ tasks[t].intent # None /\ tasks[t].status = "returned"

CountRole(history, role) ==
    Cardinality({ i \in 1..Len(history) : history[i].role = role })

\* C1: after a turn without image on a session id not used before, whatever
\* the message (so for each intent: weather, ipm, general), the session's
\* history has exactly 2 entries: the user message, then one assistant
\* message.
C1_FreshTurnLeavesTwoEntries ==
    \A t \in Tasks :
        (TextTurn(t) /\ TasksOn(tasks[t].session) = {t}) =>
            LET h == conversation_history[tasks[t].session] IN
            /\ Len(h) = 2
            /\ h[1] = Entry("user", tasks[t].message)
            /\ h[2].role = "assistant"

C3_NoLostOrDuplicatedAppend ==
    \A s \in Sessions :
        (/\ TasksOn(s) # {}
         /\ \A t \in TasksOn(s) :
              /\ tasks[t].pc = "done" /\ tasks[t].kind = "message"
              /\ tasks[t].intent = "general")
        => LET h == conversation_history[s] IN
           /\ CountRole(h, "user") = Cardinality(TasksOn(s))
           /\ CountRole(h, "assistant") = Cardinality(TasksOn(s))
           /\ Len(h) = 2 * Cardinality(TasksOn(s))
           /\ \A i \in 1..Len(h) :
                h[i].role = "user" =>
                    \E t \in TasksOn(s) : h[i].content = tasks[t].message

\* Two turns on one session, both suspended before either reply arrived.
C3_Witness ==
    \E s \in Sessions :
        /\ Cardinality(TasksOn(s)) = 2
        /\ \A t \in TasksOn(s) : tasks[t].pc = "done" /\ tasks[t].intent = "general"
        /\ Len(conversation_history[s]) = 4
        /\ conversation_history[s][1].role = "user"
        /\ conversation_history[s][2].role = "user"
        /\ conversation_history[s][3].role = "assistant"

\* C28: in every reachable state, also when clear_history or another turn
\* on the same session ran while a general turn was suspended at its
\* provider call, every non-empty session history starts with a user entry
\* and every assistant entry comes directly after a user entry (the one it
\* answers); so the reply of a turn that began before a clear is not
\* appended to the cleared history.
C28_AssistantFollowsItsUser ==
    \A s \in DOMAIN conversation_history :
        LET h == conversation_history[s] IN
        /\ h # <<>> => h[1].role = "user"
        /\ \A i \in 2..Len(h) :
                h[i].role = "assistant" => h[i - 1].role = "user"

\* A turn that carries an image: chat() never detects its intent.
ImageTurn(t) == tasks'[t].kind = "message" /\ tasks'[t].intent = None

\* C29: a chat turn that carries an image creates the session entry if it
\* is missing but appends nothing: every step of such a turn leaves each
\* existing history the same sequence and gives a missing session the empty
\* one; so no history (hence no message list passed to the AI backend) ever
\* holds more than the two entries of each turn without image on that
\* session.
C29_ImageTurnAppendsNothing ==
    [][/\ \A t \in Stepping :
            ImageTurn(t) =>
                LET s == tasks'[t].session IN
                /\ DOMAIN conversation_history' = DOMAIN conversation_history \cup {s}
                /\ \A x \in DOMAIN conversation_history :
                        conversation_history'[x] = conversation_history[x]
                /\ s \notin DOMAIN conversation_history =>
                        conversation_history'[s] = <<>>
       /\ \A s \in DOMAIN conversation_history' :
            Len(conversation_history'[s]) <=
                2 * Cardinality({ t \in Tasks : /\ tasks'[t].session = s
                                                /\ tasks'[t].kind = "message"
                                                /\ tasks'[t].intent # None })]_vars

\* A turn with an image has returned on a session that an earlier general
\* turn left with its two entries.
C29_Witness ==
    \E t \in Tasks, u \in Tasks :
        /\ TextTurn(u) /\ tasks[u].intent = "general"
        /\ tasks[t].kind = "message" /\ tasks[t].intent = None
        /\ tasks[t].pc = "done" /\ tasks[t].status = "returned" /\ u < t
        /\ tasks[t].session = tasks[u].session
        /\ Len(conversation_history[tasks[t].session]) = 2

\* C30: in a weather-intent turn with coordinates supplied whose weather
\* lookup fails and returns an error record, the service does not report
\* the failure: analyze_disease_risk is still applied to the error record,
\* so the reply, under the heading of current conditions, shows the levels
\* computed from the built-in defaults (temperature 25, humidity 50,
\* precipitation 0, wind 5: fungal low, pest medium, spray good), whereas
\* generate_strategy skips the assessment for the same error record.
C30_FailedLookupShowsDefaultRisks ==
    [][\A t \in Tasks, outcome \in WeatherOutcomes, data \in CurrentData :
         LET weather == get_current_weather(outcome, data)
             reply == tasks'[t].weather_msg
             defaults == [temperature |-> Tenths(25), humidity |-> Tenths(50),
                          precipitation |-> 0, wind_speed |-> Tenths(5)] IN
         (ChatWeatherReturn(t, outcome, data) /\ "error" \in DOMAIN weather) =>
            /\ tasks[t].intent = "weather" /\ tasks[t].coords
            /\ tasks'[t].status = "returned"
            /\ tasks'[t].response = "Current conditions at your location"
            /\ reply.fungal_disease_risk = "low"
            /\ reply.pest_activity_risk = "medium"
            /\ reply.spray_conditions = "good"
            /\ reply.fungal_disease_risk = analyze_disease_risk(defaults).fungal_disease_risk
            /\ reply.pest_activity_risk = analyze_disease_risk(defaults).pest_activity_risk
            /\ reply.spray_conditions = analyze_disease_risk(defaults).spray_conditions
            /\ reply.alerts = <<>>
            /\ strategy_weather_risks(weather) = EmptyDict]_vars

\* A weather turn has returned the default levels with no reading to show.
C30_Witness ==
    \E t \in Tasks :
        /\ tasks[t].pc = "done" /\ tasks[t].intent = "weather" /\ tasks[t].coords
        /\ tasks[t].status = "returned"
        /\ DOMAIN tasks[t].weather_msg # {}
        /\ tasks[t].weather_msg.temperature = NoFloat
        /\ tasks[t].weather_msg.fungal_disease_risk = "low"
        /\ tasks[t].weather_msg.pest_activity_risk = "medium"
        /\ tasks[t].weather_msg.spray_conditions = "good"

\* Message texts beyond those of the turns: keywords in capitals, broken by
\* a space, cut short, inside longer words, of both sets, and no text.
Samples ==
    Messages \cup {"", "Rain?", "RAIN", "ra in", "sprays", "temperatur", "IPM",
                   "long term", "longterm", "explain", "wind strategy"}

\* Some stretch of the lower-cased text is one of the keywords.
HasKeyword(message, keywords) ==
    LET text == Lower(Chars(message)) IN
    \E i \in 1..Len(text), j \in 1..Len(text) : SubSeq(text, i, j) \in keywords

\* detect_intent on every sample message: one of the three intents, weather
\* iff a weather keyword occurs, ipm iff none does and an ipm keyword occurs.
SamplesClassified ==
    \A message \in Samples :
        LET intent == detect_intent(message) IN
        /\ intent \in {"weather", "ipm", "general"}
        /\ intent = "weather" <=> HasKeyword(message, weather_keywords)
        /\ intent = "ipm" <=> (~HasKeyword(message, weather_keywords)
                                /\ HasKeyword(message, ipm_keywords))

\* The turns without image received so far.
TextTurns == { t \in Tasks : tasks[t].kind = "message" /\ tasks[t].intent # None }

\* C20: _detect_intent returns exactly one of weather, ipm, general:
\* weather iff the lower-cased message contains a weather keyword as a
\* substring (even when it also contains an ipm keyword), ipm iff it
\* contains no weather keyword and contains an ipm keyword, general
\* otherwise; and in a turn without image the AI backend is called and an
\* assistant entry is appended only on the general branch.
C20_IntentAndGeneralBranch ==
    /\ SamplesClassified
    /\ \A t \in TextTurns :
        /\ tasks[t].intent = IntentOf[tasks[t].message]
        /\ tasks[t].intent # "general" =>
                (tasks[t].ai = IdleCall /\ tasks[t].stage # "general")
    /\ \A s \in DOMAIN conversation_history :
            CountRole(conversation_history[s], "assistant")
                <= Cardinality({ t \in TextTurns :
                        /\ tasks[t].session = s /\ tasks[t].intent = "general"
                        /\ tasks[t].pc = "done" /\ tasks[t].status = "returned" })

\* "Spray plan" with coordinates: answered from the weather provider, the
\* session holding the user entry alone; next to it a general turn whose
\* AI request is in flight.
C20_Witness ==
    \E t \in TextTurns, u \in TextTurns :
        /\ tasks[t].message = "Spray plan" /\ tasks[t].intent = "weather"
        /\ tasks[t].coords /\ tasks[t].pc = "done"
        /\ conversation_history[tasks[t].session] = <<Entry("user", "Spray plan")>>
        /\ tasks[u].intent = "general" /\ tasks[u].ai.pc = "request"

-----------------------------------------------------------------------------
(* SpecServices: one call of analyze_leaf, analyze_field or                *)
(* generate_strategy, suspended at its awaited requests.                   *)

\* JSON objects a model may reply with: empty, scalar members only, with a
\* member holding an object, or with all three members.
JsonObjects ==
    { EmptyDict, [a |-> "1"], [a |-> "1", b |-> "2"], [n |-> EmptyDict],
      [b |-> "2", n |-> [a |-> "1"]], [a |-> "1", b |-> "2", n |-> EmptyDict] }

\* Prose around an object: none, plain, or containing a brace.
Prose == { <<>>, <<"w">>, <<"{">>, <<"}">> }

\* The bodies a backend's response can carry: an object inside prose, or a
\* text that is not one object (nothing, prose, an unclosed or unopened
\* object, a trailing comma, a key without value, a missing comma, two
\* objects).
Bodies ==
    { before \o json_dumps(object) \o after :
        before \in Prose, after \in Prose, object \in JsonObjects }
    \cup { <<>>, <<"w">>, <<"{", "a">>, <<"a", "}">>, <<"{", "a", ",", "}">>,
           <<"{", "n", "}">>, <<"{", "a", "b", "}">>, <<"{", "}", "{", "}">> }
    \cup { <<"{", "c", "}">>, <<"w", "{", "a", ",", "c", "}">>,
           <<"{", "a", ",", "e", "}">> }

Crops == {"Tomato", "rice"}

\* ... and for the daily forecast: five days, four of them calm and dry.
ForecastData ==
    { << Day("d1", Tenths(24), Tenths(14), 0, Tenths(60), Tenths(5)),
         Day("d2", Tenths(24), Tenths(14), 0, Tenths(85), Tenths(5)),
         Day("d3", Tenths(24), Tenths(14), Tenths(2), Tenths(60), Tenths(5)),
         Day("d4", Tenths(24), Tenths(14), 0, Tenths(60), Tenths(9)),
         Day("d5", Tenths(24), Tenths(14), 0, Tenths(60), Tenths(9)) >> }

InitServices ==
    /\ groq \in ProviderConfigs
    /\ gemini \in ProviderConfigs
    /\ current_provider = [i \in Instances |-> None]
    /\ call = IdleCall
    /\ conversation_history = EmptyHistory
    /\ tasks = NoTasks
    /\ service = IdleService
    /\ returned = NotReturned

\* A service method reaches its AI call: the invocation `c` runs to its
\* first await, or raises.
BeginAI(svc, c) ==
    LET d == SmartBegin(c, <<>>) IN
    /\ call' = d
    /\ current_provider' = SetCurrent(current_provider, c, d)
    /\ service' = [svc EXCEPT !.pc = IF d.pc = "raised" THEN "done" ELSE "ai"]
    /\ returned' = IF d.pc = "raised" THEN Raised ELSE returned

\* analyze_leaf(image_base64), up to its await.
AnalyzeLeaf(image) ==
    /\ service.pc = "idle"
    /\ BeginAI([service EXCEPT !.site = "analyze_leaf"],
               NewCall("smart", "disease_service", "analyze_image", image, <<>>))
    /\ UNCHANGED <<groq, gemini, conversation_history, tasks>>

\* analyze_field(image_base64), up to its await.
AnalyzeField(image) ==
    /\ service.pc = "idle"
    /\ BeginAI([service EXCEPT !.site = "analyze_field"],
               NewCall("smart", "disease_service", "analyze_image", image, <<>>))
    /\ UNCHANGED <<groq, gemini, conversation_history, tasks>>

\* generate_strategy(disease, crop, latitude, longitude), up to its first
\* await: the weather lookup when both coordinates are truthy, else the AI
\* call.
GenerateStrategy(crop, latitude, longitude) ==
    /\ service.pc = "idle"
    /\ LET svc == [service EXCEPT !.site = "generate_strategy", !.crop = crop,
                                  !.latitude = latitude, !.longitude = longitude] IN
       IF TruthyFloat(latitude) /\ TruthyFloat(longitude)
       THEN /\ service' = [svc EXCEPT !.pc = "current"]
            /\ UNCHANGED <<call, current_provider, returned>>
       ELSE BeginAI(svc, NewCall("smart", "ipm_service", "generate_text", ImgNone, <<>>))
    /\ UNCHANGED <<groq, gemini, conversation_history, tasks>>

\* get_current_weather returns; generate_strategy awaits get_forecast.
StrategyCurrentReturn(outcome, data) ==
    /\ service.pc = "current"
    /\ service' = [service EXCEPT !.pc = "forecast",
                                  !.current = get_current_weather(outcome, data)]
    /\ UNCHANGED <<groq, gemini, current_provider, call, conversation_history,
                   tasks, returned>>

\* get_forecast returns; generate_strategy assesses the risks and goes on
\* to its AI call.
StrategyForecastReturn(outcome, days) ==
    /\ service.pc = "forecast"
    /\ LET svc == [service EXCEPT
                     !.forecast = get_forecast(outcome, days, service.latitude,
                                               service.longitude),
                     !.weather_risks = strategy_weather_risks(service.current)] IN
       BeginAI(svc, NewCall("smart", "ipm_service", "generate_text", ImgNone, <<>>))
    /\ UNCHANGED <<groq, gemini, conversation_history, tasks>>

\* The reachability probe of the AI call ends.
ServiceProbeReturn(outcome) ==
    /\ service.pc = "ai" /\ call.pc = "probe"
    /\ LET d == SmartAfterProbe(call, outcome, <<>>) IN
       /\ call' = d
       /\ current_provider' = SetCurrent(current_provider, call, d)
       /\ service' = [service EXCEPT !.pc = IF d.pc = "raised" THEN "done" ELSE "ai"]
       /\ returned' = IF d.pc = "raised" THEN Raised ELSE returned
    /\ UNCHANGED <<groq, gemini, conversation_history, tasks>>

\* The backend's request ends with `body`: the service parses the text it
\* is handed and returns.
ServiceResponse(outcome, body) ==
    /\ service.pc = "ai" /\ call.pc = "request"
    /\ LET d == AfterResponse(call, outcome)
           response == ResponseText(d.result, body) IN
       /\ call' = d
       /\ IF d.pc = "raised"
          THEN /\ service' = [service EXCEPT !.pc = "done"]
               /\ returned' = Raised
          ELSE /\ service' =
                    [service EXCEPT
                        !.pc = "done", !.response = response,
                        !.parsed =
                            CASE service.site = "analyze_leaf" ->
                                    parse_disease_response(response)
                              [] service.site = "analyze_field" ->
                                    parse_health_map_response(response)
                              [] OTHER -> parse_strategy_response(response)]
               /\ returned' =
                    CASE service.site = "analyze_leaf" -> analyze_leaf(response)
                      [] service.site = "analyze_field" -> analyze_field(response)
                      [] OTHER -> generate_strategy(service, response)
    /\ UNCHANGED <<groq, gemini, current_provider, conversation_history, tasks>>

NextServices ==
    \/ \E image \in {ImgValid, ImgInvalid} : AnalyzeLeaf(image)
    \/ \E image \in {ImgValid, ImgInvalid} : AnalyzeField(image)
    \/ \E crop \in Crops, where \in Coordinates :
            GenerateStrategy(crop, where[1], where[2])
    \/ \E outcome \in WeatherOutcomes, data \in CurrentData :
            StrategyCurrentReturn(outcome, data)
    \/ \E outcome \in WeatherOutcomes, days \in ForecastData :
            StrategyForecastReturn(outcome, days)
    \/ \E outcome \in ChatOutcomes : ServiceProbeReturn(outcome)
    \/ \E outcome \in ServiceOutcomes, body \in Bodies : ServiceResponse(outcome, body)

SpecServices == InitServices /\ [][NextServices]_vars

-----------------------------------------------------------------------------
(* Properties of the structured services, checked under SpecServices.      *)

\* The members the prompts' JSON formats ask for, in the pieces of the text
\* model: scalar members and a member holding an object.
SchemaFields == {"a", "b", "n"}

\* The fallback record of the parser a service method uses.
Fallback(site, response) ==
    CASE site = "analyze_leaf" -> DiseaseFallback(response)
      [] site = "analyze_field" -> HealthMapFallback(response)
      [] OTHER -> StrategyFallback(response)

\* C11: every result analyze_leaf, analyze_field and generate_strategy
\* return either contains all the fields of its target schema or is exactly
\* the call site's fallback record (with parse_error true): no parsed object
\* lacking schema fields, and no fallback record with extra fields merged
\* in, is returned.
C11_CompleteOrExactFallback ==
    returned.status = "returned" =>
        \/ SchemaFields \subseteq DOMAIN returned.value
        \/ returned.value = Fallback(service.site, service.response)

\* The text is `object` written out, with `before` in front and `after`
\* behind.
Wraps(text, before, object, after) == text = before \o json_dumps(object) \o after

\* C12 as stated: for every text made of one well-formed JSON object with
\* arbitrary prose before and after it, prose containing "{" or "}"
\* included, each of the three parsers returns a mapping equal to that
\* object, not the fallback.
C12_RoundTripAnyProse ==
    service.parsed.status # None =>
        \A object \in JsonObjects, before \in Prose, after \in Prose :
            Wraps(service.response, before, object, after) =>
                service.parsed = Returned(object)

\* C12 amended: for every text made of one well-formed JSON object, prose
\* without "{" before it and prose without "}" after it, each of the three
\* parsers returns a mapping equal to that object, not the fallback.
C12_RoundTripProseWithoutOuterBrace ==
    service.parsed.status # None =>
        \A object \in JsonObjects, before \in Prose, after \in Prose :
            (/\ Wraps(service.response, before, object, after)
             /\ \A i \in 1..Len(before) : before[i] # "{"
             /\ \A i \in 1..Len(after) : after[i] # "}")
            => /\ service.parsed = Returned(object)
               /\ "parse_error" \notin DOMAIN service.parsed.value

\* A nested object between a "}" and a "{" of the prose.
C12_Witness ==
    /\ service.site = "generate_strategy"
    /\ Wraps(service.response, <<"}">>, [b |-> "2", n |-> [a |-> "1"]], <<"{">>)
    /\ service.parsed = Returned([b |-> "2", n |-> [a |-> "1"]])

\* The text has a "{" with a "}" somewhere after it.
HasBraceSpan(text) ==
    \E i \in 1..Len(text), j \in 1..Len(text) :
        i < j /\ text[i] = "{" /\ text[j] = "}"

\* The text from its first "{" to its last "}".
BraceSpan(text) ==
    LET i == CHOOSE k \in 1..Len(text) :
                text[k] = "{" /\ \A m \in 1..(k - 1) : text[m] # "{"
        j == CHOOSE k \in 1..Len(text) :
                text[k] = "}" /\ \A m \in (k + 1)..Len(text) : text[m] # "}"
    IN  SubSeq(text, i, j)

\* C13: for every text without a "{...}" span, or whose span from the first
\* "{" to the last "}" is not valid JSON, each parser returns its fixed
\* fallback record, with parse_error true and the raw text unchanged in
\* description (diagnosis), recommendations[0] (health map) or raw_strategy
\* (strategy); no parser raises.
C13_ExtractOrFallback ==
    service.parsed.status # None =>
        /\ service.parsed.status = "returned"
        /\ (\/ ~HasBraceSpan(service.response)
            \/ ~json_loads(BraceSpan(service.response)).ok)
           => LET record == service.parsed.value IN
              /\ record = Fallback(service.site, service.response)
              /\ record.parse_error = TRUE
              /\ service.site = "analyze_leaf" => record.description = service.response
              /\ service.site = "analyze_field" =>
                    record.recommendations = <<service.response>>
              /\ service.site = "generate_strategy" =>
                    record.raw_strategy = service.response

\* A trailing comma inside the braces, at the health-map parser.
C13_Witness ==
    /\ service.site = "analyze_field"
    /\ service.response = <<"w", "{", "a", ",", "}">>
    /\ service.parsed.status = "returned"
    /\ service.parsed.value.recommendations = << <<"w", "{", "a", ",", "}">> >>

\* C14: when the selected backend fails (the provider hands back an error
\* text, possibly embedding the backend's JSON error body), analyze_leaf,
\* analyze_field and generate_strategy still return normally, and what they
\* return is the call site's fallback record with parse_error true and the
\* error text preserved, never a record parsed out of the error text.
C14_FailureGivesFallback ==
    (service.pc = "done" /\ IsFailure(call.response)) =>
        /\ returned.status = "returned"
        /\ "parse_error" \in DOMAIN returned.value
        /\ returned.value.parse_error = TRUE
        /\ service.parsed.value = Fallback(service.site, service.response)

\* A call of generate_strategy that has returned its strategy.
StrategyReturned ==
    /\ service.site = "generate_strategy" /\ service.pc = "done"
    /\ returned.status = "returned"

\* The row of the static table for a crop.
CompanionRow(crop) ==
    IF crop \in {"tomato", "Tomato"} THEN <<"Basil", "Marigold", "Garlic">>
    ELSE IF crop \in {"potato", "Potato"} THEN <<"Horseradish", "Marigold">>
    ELSE IF crop \in {"corn", "Corn"} THEN <<"Beans", "Squash">>
    ELSE <<"Marigold", "Nasturtium">>

\* C22: every strategy returned by generate_strategy has a non-empty
\* companion_planting: a non-empty value of the model is left unchanged;
\* when the normalized response omits the field, has it empty, or is the
\* fallback record, it is the table row of the lower-cased crop, or the
\* default row when the crop is not in the table.
C22_CompanionPlantingFilled ==
    StrategyReturned =>
        LET strategy == returned.value
            parsed == service.parsed.value
            provided == /\ "companion_planting" \in DOMAIN parsed
                        /\ parsed.companion_planting # <<>>
        IN  /\ "companion_planting" \in DOMAIN strategy
            /\ strategy.companion_planting # <<>>
            /\ provided => strategy.companion_planting = parsed.companion_planting
            /\ ~provided => strategy.companion_planting = CompanionRow(service.crop)

\* "Tomato" with a model response that has the field empty: the tomato row.
C22_Witness ==
    /\ StrategyReturned
    /\ service.crop = "Tomato"
    /\ "companion_planting" \in DOMAIN service.parsed.value
    /\ service.parsed.value.companion_planting = <<>>
    /\ returned.value.companion_planting = <<"Basil", "Marigold", "Garlic">>

\* C23: whenever generate_strategy is called with both coordinates
\* supplied (latitude 0 or longitude 0 included) and the current-weather
\* lookup succeeds, the strategy contains weather_analysis, the
\* analyze_disease_risk of the current snapshot, and optimal_spray_windows,
\* the first at most 3 spray windows in forecast order; with no coordinates
\* neither field is added.
C23_WeatherMergedWhenCoordinatesSupplied ==
    StrategyReturned =>
        LET strategy == returned.value
            windows ==
                get_optimal_spray_windows(Get(service.forecast, "forecast", <<>>))
        IN  IF service.latitude.some /\ service.longitude.some
            THEN "error" \notin DOMAIN service.current =>
                    /\ service.current \in
                            { get_current_weather("200", data) : data \in CurrentData }
                    /\ "weather_analysis" \in DOMAIN strategy
                    /\ strategy.weather_analysis = analyze_disease_risk(service.current)
                    /\ "optimal_spray_windows" \in DOMAIN strategy
                    /\ strategy.optimal_spray_windows =
                            SubSeq(windows, 1, Min(3, Len(windows)))
            ELSE /\ "weather_analysis" \notin DOMAIN strategy
                 /\ "optimal_spray_windows" \notin DOMAIN strategy

-----------------------------------------------------------------------------
(* SpecHeuristics: the scoring functions applied to the readings they can  *)
(* be handed.  analyze_disease_risk and get_optimal_spray_windows take     *)
(* their argument from Init; predict_outbreak_risk awaits the forecast.    *)

\* Longest forecast handed to get_optimal_spray_windows and
\* predict_outbreak_risk.
MaxDays == 2

\* Readings on both sides of a threshold x, one tenth away.
Around(x) == {Tenths(x) - 1, Tenths(x), Tenths(x) + 1}

\* The weather_data dicts: every combination of readings around the
\* thresholds of the rules, a snapshot lacking precipitation and wind, and
\* the record get_current_weather returns on failure.
Snapshots ==
    { [temperature |-> t, humidity |-> h, precipitation |-> p, wind_speed |-> w] :
        t \in UNION {Around(x) : x \in {10, 15, 20, 25, 28}},
        h \in UNION {Around(x) : x \in {40, 60, 70, 75, 80, 85}},
        p \in {0, 1} \cup Around(5),
        w \in {Tenths(5)} \cup Around(15) }
    \cup { [temperature |-> Tenths(20), humidity |-> Tenths(85)],
           get_current_weather("500", EmptyDict) }

\* Forecast days around the thresholds of get_optimal_spray_windows.
SprayDays ==
    { Day("d", Tenths(24), Tenths(14), rain, h, wind) :
        rain \in {0, Tenths(1) - 1, Tenths(1)},
        h \in {Tenths(50), Tenths(50) + 1, Tenths(80) - 1, Tenths(80)},
        wind \in {Tenths(10) - 1, Tenths(10)} }

\* Sequences of at most n elements of S.
SeqUpTo(S, n) == UNION { [1..k -> S] : k \in 0..n }

\* Forecast days around the thresholds of predict_outbreak_risk (the mean
\* of temp_max and temp_min just below 15, 15, 25, just above 25), the day
\* of the example (85 %, mean 20, 8 mm) and a day with no reading.
OutbreakDays ==
    { Day("d", tmax, tmin, rain, h, Tenths(5)) :
        tmax \in {Tenths(20), Tenths(30)},
        tmin \in {Tenths(10) - 1, Tenths(10), Tenths(20), Tenths(20) + 1},
        rain \in {0, 1} \cup Around(5),
        h \in Around(70) \cup Around(80) }
    \cup { Day("d", Tenths(25), Tenths(15), Tenths(8), Tenths(85), Tenths(5)),
           [date |-> "d"] }

\* The forecasts predict_outbreak_risk is handed: any single day, and the
\* sequences of a high-risk and a low-risk day.
OutbreakForecasts ==
    { <<day>> : day \in OutbreakDays }
    \cup SeqUpTo({ Day("d", Tenths(25), Tenths(15), Tenths(8), Tenths(85), Tenths(5)),
                   Day("d", Tenths(30), Tenths(20), 0, Tenths(60), Tenths(5)) },
                 MaxDays)

InitHeuristics ==
    /\ groq \in {NoProvider}
    /\ gemini \in {NoProvider}
    /\ current_provider = [i \in Instances |-> None]
    /\ call = IdleCall
    /\ conversation_history = EmptyHistory
    /\ tasks = NoTasks
    /\ returned = NotReturned
    /\ \/ \E weather_data \in Snapshots :
            service = [IdleService EXCEPT !.site = "analyze_disease_risk",
                                          !.args = weather_data]
       \/ \E forecast \in SeqUpTo(SprayDays, MaxDays) :
            service = [IdleService EXCEPT !.site = "get_optimal_spray_windows",
                                          !.args = forecast]
       \/ \E crop \in Crops :
            service = [IdleService EXCEPT !.site = "predict_outbreak_risk",
                                          !.crop = crop, !.latitude = Float(28),
                                          !.longitude = Float(77)]

\* weather_service.analyze_disease_risk(weather_data)
AnalyzeDiseaseRisk ==
    /\ service.pc = "idle" /\ service.site = "analyze_disease_risk"
    /\ service' = [service EXCEPT !.pc = "done"]
    /\ returned' = Returned(analyze_disease_risk(service.args))
    /\ UNCHANGED <<groq, gemini, current_provider, call, conversation_history, tasks>>

\* weather_service.get_optimal_spray_windows(forecast)
GetOptimalSprayWindows ==
    /\ service.pc = "idle" /\ service.site = "get_optimal_spray_windows"
    /\ service' = [service EXCEPT !.pc = "done"]
    /\ returned' = Returned(get_optimal_spray_windows(service.args))
    /\ UNCHANGED <<groq, gemini, current_provider, call, conversation_history, tasks>>

\* predict_outbreak_risk(latitude, longitude, crop), up to its await.
PredictOutbreakRisk ==
    /\ service.pc = "idle" /\ service.site = "predict_outbreak_risk"
    /\ service' = [service EXCEPT !.pc = "forecast"]
    /\ UNCHANGED <<groq, gemini, current_provider, call, conversation_history,
                   tasks, returned>>

\* get_forecast returns; predict_outbreak_risk scores the days and returns.
PredictForecastReturn(outcome, days) ==
    /\ service.pc = "forecast" /\ service.site = "predict_outbreak_risk"
    /\ LET forecast == get_forecast(outcome, days, service.latitude,
                                    service.longitude) IN
       /\ service' = [service EXCEPT !.pc = "done", !.forecast = forecast]
       /\ returned' = Returned(predict_outbreak_risk(forecast, service.latitude,
                                                     service.longitude, service.crop))
    /\ UNCHANGED <<groq, gemini, current_provider, call, conversation_history, tasks>>

NextHeuristics ==
    \/ AnalyzeDiseaseRisk
    \/ GetOptimalSprayWindows
    \/ PredictOutbreakRisk
    \/ \E outcome \in WeatherOutcomes, days \in OutbreakForecasts :
            PredictForecastReturn(outcome, days)

SpecHeuristics == InitHeuristics /\ [][NextHeuristics]_vars

-----------------------------------------------------------------------------
(* Properties of the scoring functions, checked under SpecHeuristics.      *)

\* A call of analyze_disease_risk that has returned, and the readings it
\* used.
Assessed == service.site = "analyze_disease_risk" /\ service.pc = "done"
Temperature == Get(service.args, "temperature", Tenths(25))
Humidity == Get(service.args, "humidity", Tenths(50))
Precipitation == Get(service.args, "precipitation", 0)
WindSpeed == Get(service.args, "wind_speed", Tenths(5))

\* C15: analyze_disease_risk follows the rule table, with strict
\* comparisons where the table has them.  fungal: high iff humidity > 80
\* and 15 <= temp <= 25, else medium iff humidity > 70 and 10 <= temp <= 28,
\* else low.  bacterial: high iff temp > 25 and (humidity > 85 or
\* precipitation > 5), else medium iff temp > 20 and humidity > 75, else
\* low.  pest: high iff temp > 25 and humidity < 60, else medium iff
\* temp > 20, else low.  spray: poor iff wind_speed > 15 or
\* precipitation > 0, else moderate iff humidity < 40, else good.  At 20 C,
\* 85 %, no rain, wind 5: fungal high, bacterial low, spray good.
C15_RuleTable ==
    Assessed =>
        LET risks == returned.value
            t == Temperature
            h == Humidity
            p == Precipitation
            w == WindSpeed
            fungal_high == h > 800 /\ 150 <= t /\ t <= 250
            bacterial_high == t > 250 /\ (h > 850 \/ p > 50)
            pest_high == t > 250 /\ h < 600
            spray_poor == w > 150 \/ p > 0
        IN  /\ risks.fungal_disease_risk = "high" <=> fungal_high
            /\ risks.fungal_disease_risk = "medium" <=>
                    (~fungal_high /\ h > 700 /\ 100 <= t /\ t <= 280)
            /\ risks.fungal_disease_risk \in {"high", "medium", "low"}
            /\ risks.bacterial_disease_risk = "high" <=> bacterial_high
            /\ risks.bacterial_disease_risk = "medium" <=>
                    (~bacterial_high /\ t > 200 /\ h > 750)
            /\ risks.bacterial_disease_risk \in {"high", "medium", "low"}
            /\ risks.pest_activity_risk = "high" <=> pest_high
            /\ risks.pest_activity_risk = "medium" <=> (~pest_high /\ t > 200)
            /\ risks.pest_activity_risk \in {"high", "medium", "low"}
            /\ risks.spray_conditions = "poor" <=> spray_poor
            /\ risks.spray_conditions = "moderate" <=> (~spray_poor /\ h < 400)
            /\ risks.spray_conditions \in {"poor", "moderate", "good"}
            /\ (t = 200 /\ h = 850 /\ p = 0 /\ w = 50) =>
                    /\ risks.fungal_disease_risk = "high"
                    /\ risks.bacterial_disease_risk = "low"
                    /\ risks.spray_conditions = "good"

\* Humidity one tenth above 80 at 25 C: fungal high; rain: spray poor.
C15_Witness ==
    /\ Assessed
    /\ Temperature = 250 /\ Humidity = 801 /\ Precipitation = 1 /\ WindSpeed = 50
    /\ returned.value.fungal_disease_risk = "high"
    /\ returned.value.spray_conditions = "poor"

\* low = 1, medium = 2, high = 3.
LevelNumber(level) == IF level = "low" THEN 1 ELSE IF level = "medium" THEN 2 ELSE 3

\* The sum of the three dimension levels of the returned assessment.
LevelSum ==
    LevelNumber(returned.value.fungal_disease_risk)
    + LevelNumber(returned.value.bacterial_disease_risk)
    + LevelNumber(returned.value.pest_activity_risk)

\* C16: with low = 1, medium = 2, high = 3 and m the mean of the three
\* dimension levels, overall_risk_level is low if m < 1.5, medium if
\* 1.5 <= m < 2.5 and high otherwise, and overall_risk_score is
\* round(m * 33.3) (the integer nearest to 11.1 times the sum, the even one
\* on a tie), which lies within 0..100.
C16_OverallLevelAndScore ==
    Assessed =>
        LET risks == returned.value
            gap == 10 * risks.overall_risk_score - 111 * LevelSum
        IN  /\ risks.overall_risk_level =
                    (IF 2 * LevelSum < 9 THEN "low"
                     ELSE IF 2 * LevelSum < 15 THEN "medium" ELSE "high")
            /\ gap \in -5..5
            /\ gap \in {-5, 5} => risks.overall_risk_score % 2 = 0
            /\ risks.overall_risk_score \in 0..100

\* Three medium dimensions: mean 2, score 67, level medium.
C16_Witness ==
    /\ Assessed
    /\ LevelSum = 6
    /\ returned.value.overall_risk_score = 67
    /\ returned.value.overall_risk_level = "medium"

\* The dimensions of the returned assessment that are high.
HighDimensions ==
    { d \in {"fungal_disease_risk", "bacterial_disease_risk", "pest_activity_risk"} :
        returned.value[d] = "high" }

\* C27: for every weather snapshot the fungal, bacterial and pest rules of
\* analyze_disease_risk never give two high dimensions together with a
\* third that is at least medium: the three levels sum to at most 7, so
\* overall_risk_level is never "high" and overall_risk_score is at most 78.
C27_NeverOverallHigh ==
    Assessed =>
        /\ Cardinality(HighDimensions) <= 2
        /\ Cardinality(HighDimensions) = 2 => LevelSum = 7
        /\ LevelSum <= 7
        /\ returned.value.overall_risk_level # "high"
        /\ returned.value.overall_risk_score <= 78

\* 25.1 C, 59.9 %, 5.1 mm: bacterial and pest high, fungal low; sum 7,
\* score 78, level medium.
C27_Witness ==
    /\ Assessed
    /\ Temperature = 251 /\ Humidity = 599 /\ Precipitation = 51
    /\ HighDimensions = {"bacterial_disease_risk", "pest_activity_risk"}
    /\ returned.value.fungal_disease_risk = "low"
    /\ returned.value.overall_risk_score = 78
    /\ returned.value.overall_risk_level = "medium"

\* The advisory strings of each dimension.
Advisories(dimension) ==
    CASE dimension = "fungal_disease_risk" ->
            {"High risk of fungal diseases (Late Blight, Powdery Mildew)",
             "Monitor for early signs of fungal infection",
             "Apply preventive fungicide spray"}
      [] dimension = "bacterial_disease_risk" ->
            {"Conditions favor bacterial diseases", "Avoid overhead irrigation"}
      [] dimension = "pest_activity_risk" ->
            {"High pest activity expected (aphids, mites)",
             "Scout fields regularly for pest presence"}
      [] OTHER ->
            {"Too windy for spraying - wait for calmer conditions",
             "Rain expected - delay spraying"}

\* The place of a dimension in the evaluation order.
Rank(alert) ==
    CASE alert \in Advisories("fungal_disease_risk") -> 1
      [] alert \in Advisories("bacterial_disease_risk") -> 2
      [] alert \in Advisories("pest_activity_risk") -> 3
      [] OTHER -> 4

\* C17: every dimension (fungal, bacterial, pest) that evaluates to high or
\* medium appends its advisory string to alerts or recommendations; the
\* alerts come in evaluation order (fungal, bacterial, pest, spray); and
\* humidity > 80 with 15 <= temp <= 25 always yields the fungal high alert.
C17_EveryRaisedDimensionAdvises ==
    Assessed =>
        LET risks == returned.value
            said == { risks.alerts[i] : i \in 1..Len(risks.alerts) }
                    \cup { risks.recommendations[i] :
                            i \in 1..Len(risks.recommendations) }
        IN  /\ \A dimension \in {"fungal_disease_risk", "bacterial_disease_risk",
                                 "pest_activity_risk"} :
                    risks[dimension] \in {"high", "medium"} =>
                        said \cap Advisories(dimension) # {}
            /\ \A i \in 1..Len(risks.alerts), j \in 1..Len(risks.alerts) :
                    i < j => Rank(risks.alerts[i]) < Rank(risks.alerts[j])
            /\ (Humidity > 800 /\ 150 <= Temperature /\ Temperature <= 250) =>
                    \E i \in 1..Len(risks.alerts) :
                        risks.alerts[i] =
                            "High risk of fungal diseases (Late Blight, Powdery Mildew)"

\* C17 (amended): every risk dimension that evaluates to high, and the
\* fungal dimension when it evaluates to medium, appends its advisory
\* string to alerts or recommendations; the alerts come in evaluation order
\* (fungal, bacterial, pest, spray); and humidity > 80 with
\* 15 <= temp <= 25 always yields the fungal high alert.
C17_HighAndFungalMediumAdvise ==
    Assessed =>
        LET risks == returned.value
            said == { risks.alerts[i] : i \in 1..Len(risks.alerts) }
                    \cup { risks.recommendations[i] :
                            i \in 1..Len(risks.recommendations) }
        IN  /\ \A dimension \in {"fungal_disease_risk", "bacterial_disease_risk",
                                 "pest_activity_risk"} :
                    (\/ risks[dimension] = "high"
                     \/ (dimension = "fungal_disease_risk"
                            /\ risks[dimension] = "medium")) =>
                        said \cap Advisories(dimension) # {}
            /\ \A i \in 1..Len(risks.alerts), j \in 1..Len(risks.alerts) :
                    i < j => Rank(risks.alerts[i]) < Rank(risks.alerts[j])
            /\ (Humidity > 800 /\ 150 <= Temperature /\ Temperature <= 250) =>
                    \E i \in 1..Len(risks.alerts) :
                        risks.alerts[i] =
                            "High risk of fungal diseases (Late Blight, Powdery Mildew)"

\* Fungal medium, bacterial high, pest medium in a gale: three alerts in
\* order, none of them for the pest dimension.
C17_Witness ==
    /\ Assessed
    /\ returned.value.fungal_disease_risk = "medium"
    /\ returned.value.bacterial_disease_risk = "high"
    /\ returned.value.pest_activity_risk = "medium"
    /\ returned.value.alerts =
            <<"Monitor for early signs of fungal infection",
              "Conditions favor bacterial diseases",
              "Too windy for spraying - wait for calmer conditions">>

\* A call of get_optimal_spray_windows that has returned.
Windowed == service.site = "get_optimal_spray_windows" /\ service.pc = "done"

\* The days of the forecast with wind_speed < 10 and precipitation < 1.
CalmDry(forecast) ==
    { i \in 1..Len(forecast) :
        forecast[i].wind_speed < 100 /\ forecast[i].precipitation < 10 }

Predicted ==
    /\ service.site = "predict_outbreak_risk" /\ service.pc = "done"
    /\ "daily_risks" \in DOMAIN returned.value

-----------------------------------------------------------------------------
(* The route handlers (routes/weather.py, routes/ipm.py,                   *)
(* routes/analysis.py): what each answers once its service call has ended. *)
(* An answer is the status code with the detail of the HTTPException, or   *)
(* 200 with detail None for the success envelope.                          *)

\* raise HTTPException(status_code=..., detail=...)
HTTPException(status_code, detail) == [status_code |-> status_code, detail |-> detail]

\* return AgriGuardResponse(status="success", data=...)
Success == [status_code |-> 200, detail |-> None]

routes_get_current_weather_500(result) ==
    IF result.status = "raised" THEN HTTPException(500, "str(e)")
    ELSE IF "error" \in DOMAIN result.value
    THEN HTTPException(500, result.value["error"])
    ELSE Success

\* routes/weather.py get_current_weather, from the return of the service
\* call on.
routes_get_current_weather(result) ==
    IF result.status = "raised" THEN HTTPException(500, "str(e)")
    ELSE IF "error" \in DOMAIN result.value
    THEN HTTPException(400, result.value["error"])
    ELSE Success

\* routes/ipm.py predict_outbreak likewise.
routes_predict_outbreak(result) ==
    IF result.status = "raised" THEN HTTPException(500, "str(e)")
    ELSE IF "error" \in DOMAIN result.value
    THEN HTTPException(400, result.value["error"])
    ELSE Success

\* The keys of COMMON_DISEASES_DB the lookups use.
COMMON_DISEASES_DB == {"late_blight", "powdery_mildew", "aphids", "fall_armyworm"}

\* routes/ipm.py get_disease_info
routes_get_disease_info(disease_key) ==
    IF \E key \in COMMON_DISEASES_DB :
            Chars(key) # <<>> /\ Lower(Chars(disease_key)) = Chars(key)
    THEN Success
    ELSE HTTPException(404, "Disease not found. Available: {available}")

\* routes/analysis.py analyze_leaf, from the return of the service call on.
routes_analyze_leaf(result) ==
    IF result.status = "raised" THEN HTTPException(500, "str(e)") ELSE Success

-----------------------------------------------------------------------------
(* SpecRoutes: one request to one of these routes.                         *)

InitRoutes ==
    /\ groq \in ProviderConfigs
    /\ gemini \in ProviderConfigs
    /\ current_provider = [i \in Instances |-> None]
    /\ call = IdleCall
    /\ conversation_history = EmptyHistory
    /\ tasks = NoTasks
    /\ returned = NotReturned
    /\ \E route \in {"weather.get_current_weather", "ipm.predict_outbreak",
                       "ipm.get_disease_info", "analysis.analyze_leaf"} :
        service =
            IF route = "ipm.predict_outbreak"
            THEN [IdleService EXCEPT !.route = route, !.site = "predict_outbreak_risk",
                                     !.crop = "rice", !.latitude = Float(28),
                                     !.longitude = Float(77)]
            ELSE [IdleService EXCEPT !.route = route]

\* GET /weather/current: the lookup ends and the route answers.
RouteCurrentWeather(outcome, data) ==
    /\ service.route = "weather.get_current_weather" /\ service.pc = "idle"
    /\ LET weather == Returned(get_current_weather(outcome, data)) IN
       /\ returned' = weather
       /\ service' = [service EXCEPT !.pc = "done", !.site = "get_current_weather",
                                     !.http = routes_get_current_weather(weather)]
    /\ UNCHANGED <<groq, gemini, current_provider, call, conversation_history, tasks>>

\* GET /ipm/database/{disease_key}
RouteDiseaseInfo(disease_key) ==
    /\ service.route = "ipm.get_disease_info" /\ service.pc = "idle"
    /\ service' = [service EXCEPT !.pc = "done", !.args = disease_key,
                                  !.http = routes_get_disease_info(disease_key)]
    /\ UNCHANGED <<groq, gemini, current_provider, call, conversation_history,
                   tasks, returned>>

\* The service call of the route has ended: the route answers.
RouteAnswer ==
    /\ service.route \in {"ipm.predict_outbreak", "analysis.analyze_leaf"}
    /\ service.pc = "done" /\ service.http.status_code = 0
    /\ service' = [service EXCEPT !.http =
            IF service.route = "ipm.predict_outbreak"
            THEN routes_predict_outbreak(returned)
            ELSE routes_analyze_leaf(returned)]
    /\ UNCHANGED <<groq, gemini, current_provider, call, conversation_history,
                   tasks, returned>>

NextRoutes ==
    \/ \E outcome \in WeatherOutcomes, data \in CurrentData :
            RouteCurrentWeather(outcome, data)
    \/ \E disease_key \in {"aphids", "Aphids", "rust"} : RouteDiseaseInfo(disease_key)
    \/ service.route = "ipm.predict_outbreak" /\ PredictOutbreakRisk
    \/ \E outcome \in WeatherOutcomes, days \in OutbreakForecasts :
            service.route = "ipm.predict_outbreak" /\ PredictForecastReturn(outcome, days)
    \/ \E image \in {ImgValid, ImgInvalid} :
            service.route = "analysis.analyze_leaf" /\ AnalyzeLeaf(image)
    \/ \E outcome \in ServiceOutcomes, body \in LeafBodies :
            service.route = "analysis.analyze_leaf" /\ ServiceResponse(outcome, body)
    \/ RouteAnswer

SpecRoutes == InitRoutes /\ [][NextRoutes]_vars

-----------------------------------------------------------------------------
(* Properties of the routes, checked under SpecRoutes.                     *)

\* The request has been answered.
Answered == service.http.status_code # 0

\* C24: every request that ends in a failure at any route (weather lookup
\* error, outbreak prediction error, unknown disease key, unexpected
\* exception) is answered with status 500 carrying the error text.
C24_EveryFailureIs500 ==
    (Answered /\ service.http.status_code # 200) =>
        (service.http.status_code = 500 /\ service.http.detail # None)

\* C24 (amended): every request that ends in a failure at a route is
\* answered with an error status carrying the error text: 400 for a weather
\* lookup error and for an outbreak prediction error, 404 for an unknown
\* disease key, 500 for an unexpected exception; every other request is
\* answered 200.
C24_FailureStatusByKind ==
    Answered =>
        LET failed == returned.status = "returned" /\ "error" \in DOMAIN returned.value
            expected ==
                CASE service.route \in {"weather.get_current_weather",
                                        "ipm.predict_outbreak"} /\ failed ->
                        HTTPException(400, returned.value["error"])
                  [] service.route = "ipm.get_disease_info"
                        /\ service.args \notin {"aphids", "Aphids"} ->
                        HTTPException(404, "Disease not found. Available: {available}")
                  [] returned.status = "raised" -> HTTPException(500, "str(e)")
                  [] OTHER -> Success
        IN  service.http = expected

\* A weather lookup that failed, answered 400 with the error of the record.
C24_Witness ==
    /\ Answered
    /\ service.route = "weather.get_current_weather"
    /\ returned.value = [error |-> "Failed to fetch weather data"]
    /\ service.http = HTTPException(400, "Failed to fetch weather data")

====
